---- MODULE Spec2Model ----
(***************************************************************************)
(* Model of the OAC catalog extractor (src/py/extract_dashboard_reports.py)*)
(*                                                                         *)
(* Strings are sequences of tokens.  A token stands for one character or   *)
(* for one word that the program never looks inside; the blank, the double *)
(* quote, the pipe, the comma, the dot and the parentheses are tokens of   *)
(* their own, so that split, strip, join, startswith and substring tests   *)
(* are computed the way the program computes them.                         *)
(***************************************************************************)
EXTENDS Integers, Sequences, FiniteSets, TLC

VARIABLES
  filter_doc,       \* the filter subtree handed to parse_filter_expression
  parsed_filters,   \* the rows parse_filter_expression returned
  fpc,              \* "input" before the call, "parsed" after it
  corpus,           \* the files under the input root, in discovery order
  reports_map,      \* main: report path -> parsed report
  prompts_map,      \* main: prompt path -> parsed prompt
  agg,              \* main: the record sets aggregated over the dashboards
  use_rvs,          \* main: the report-view references the tables are built from
  use_gfs,          \* main: the global-filter references the tables are built from
  use_als,          \* main: the action links the tables are built from
  dashboard_rows,   \* main: the rows of Dashboards.csv
  window_rows,      \* main: the rows of Windows.csv
  worksheet_rows,   \* main: the rows of Worksheets.csv
  charttype_rows,   \* main: the rows of ChartType.csv
  filter_rows,      \* main: the rows of Filters.csv
  mpc,              \* the step main has reached
  previous,         \* the tables an earlier run over the same corpus wrote
  opened,           \* main: the files the last step has parsed with ET.parse
  input_xml_dir,    \* os.path.isdir(input_xml_dir): the input root is a directory
  output_dir,       \* the output directory exists or can be made
  rc,               \* the exit status of the process: << >> while it runs
  filters_csv,      \* placement tool: the Filters table it is given, << >> if none
  dashboard_groups, \* placement tool: key -> the rows grouped under the key
  dashboard_filters,\* placement tool: key -> the configurations made of the rows
  globalFilter_json,\* placement tool: the entries written to globalFilter.json
  gpc               \* the step the placement tool has reached

filterVars == <<filter_doc, parsed_filters, fpc>>

mainVars == <<corpus, reports_map, prompts_map, agg, use_rvs, use_gfs,
              worksheet_rows, charttype_rows, filter_rows, mpc, previous, opened,
              input_xml_dir, output_dir, rc, use_als, dashboard_rows, window_rows>>

placementVars == <<filters_csv, dashboard_groups, dashboard_filters, globalFilter_json, gpc>>

vars == <<filter_doc, parsed_filters, fpc, corpus, reports_map, prompts_map, agg, use_rvs,
          use_gfs, worksheet_rows, charttype_rows, filter_rows, mpc, previous, opened,
              input_xml_dir, output_dir, rc, use_als, dashboard_rows, window_rows,
          filters_csv, dashboard_groups, dashboard_filters, globalFilter_json, gpc>>

\* the placement tool has not been started
PlacementIdle ==
  /\ filters_csv = [exists |-> FALSE, rows |-> << >>] /\ dashboard_groups = << >> /\ dashboard_filters = << >>
  /\ globalFilter_json = << >> /\ gpc = "idle"

\* the pipeline has not been started
MainIdle ==
  /\ corpus = << >> /\ reports_map = << >> /\ prompts_map = << >> /\ agg = << >>
  /\ use_rvs = << >> /\ use_gfs = << >> /\ worksheet_rows = << >>
  /\ charttype_rows = << >> /\ filter_rows = << >> /\ mpc = "idle" /\ previous = << >>
  /\ opened = {} /\ input_xml_dir = FALSE /\ output_dir = FALSE /\ rc = << >>
  /\ use_als = << >> /\ dashboard_rows = << >> /\ window_rows = << >>

\* the flattener has not been called on its own
FilterIdle == filter_doc = << >> /\ parsed_filters = << >> /\ fpc = "idle"

-----------------------------------------------------------------------------
(* Bounds *)

MaxNodes == 5      \* elements of a filter tree (logical nodes and leaves)
MaxOperands == 3   \* operand children of one leaf of the single-leaf inputs
MaxViews == 4      \* view elements of a report document
MaxColumns == 2    \* column elements of a report document
MaxSections == 2
MaxPageColumns == 2
MaxPrompts == 2    \* prompt elements of a prompt document

-----------------------------------------------------------------------------
(* Strings *)

SP == " "
DQ == "\""
EmptyStr == << >>

RECURSIVE Flatten(_)
Flatten(ss) == IF ss = << >> THEN << >> ELSE Head(ss) \o Flatten(Tail(ss))

\* sep.join(list)
RECURSIVE StrJoin(_, _)
StrJoin(sep, list) ==
  IF list = << >> THEN EmptyStr
  ELSE IF Len(list) = 1 THEN list[1]
  ELSE list[1] \o sep \o StrJoin(sep, Tail(list))

\* s.split(c): the pieces between the occurrences of the token c
RECURSIVE SplitOn(_, _)
SplitOn(s, c) ==
  IF \A i \in 1..Len(s) : s[i] # c THEN <<s>>
  ELSE LET k == CHOOSE i \in 1..Len(s) : s[i] = c /\ \A j \in 1..(i-1) : s[j] # c
       IN  <<SubSeq(s, 1, k-1)>> \o SplitOn(SubSeq(s, k+1, Len(s)), c)

\* sub in s
Contains(s, sub) ==
  \E i \in 0..(Len(s) - Len(sub)) : SubSeq(s, i+1, i+Len(sub)) = sub

StartsWith(s, c) == Len(s) >= 1 /\ s[1] = c

\* s.strip(): blanks removed at both ends
RECURSIVE LStrip(_)
LStrip(s) == IF s # << >> /\ Head(s) = SP THEN LStrip(Tail(s)) ELSE s

RECURSIVE RStrip(_)
RStrip(s) == IF s # << >> /\ s[Len(s)] = SP THEN RStrip(SubSeq(s, 1, Len(s)-1)) ELSE s

Strip(s) == RStrip(LStrip(s))

\* ' '.join(s.split()): runs of blanks collapse to one, none at the ends
RECURSIVE Collapse(_)
Collapse(s) ==
  IF Len(s) < 2 THEN s
  ELSE IF s[1] = SP /\ s[2] = SP THEN Collapse(Tail(s))
  ELSE <<s[1]>> \o Collapse(Tail(s))

NormWs(s) == Strip(Collapse(s))

\* s.replace(old, new)
RECURSIVE Replace(_, _, _)
Replace(s, old, new) ==
  IF Len(s) < Len(old) THEN s
  ELSE IF SubSeq(s, 1, Len(old)) = old
       THEN new \o Replace(SubSeq(s, Len(old)+1, Len(s)), old, new)
       ELSE <<s[1]>> \o Replace(Tail(s), old, new)

\* f'"{t}"."{c}"'
Pair(t, c) == <<DQ>> \o t \o <<DQ, ".", DQ>> \o c \o <<DQ>>

-----------------------------------------------------------------------------
(* Element Accessor *)

\* An operand element of a leaf carries its xsi:type without prefix, its own
\* direct text (elem.text) and, for a column expression, the expression
\* nested under saw:columnFormula.

\* text(elem): all nested text, whitespace normalised
text(elem) ==
  NormWs(elem.own \o Flatten([i \in 1..Len(elem.formula) |-> elem.formula[i].own]))

\* find(elem, 'saw:columnFormula/sawx:expr'): a sequence of at most one element
find_columnFormula(elem) == elem.formula

\* elem and its descendants in document order
SelfAndDescendants(elem) ==
  <<elem>> \o [i \in 1..Len(elem.formula) |-> elem.formula[i]]

\* findall(expr_elem, './/sawx:expr[@xsi:type=T]'): the descendants of a leaf
\* of the given type, in document order
findall_descendants(kids, xtype) ==
  SelectSeq(Flatten([i \in 1..Len(kids) |-> SelfAndDescendants(kids[i])]),
            LAMBDA e : e.xtype = xtype)

-----------------------------------------------------------------------------
(* Filter Expression Flattener *)

ComparisonOps == {"equal", "greaterOrEqual", "lessOrEqual", "notEqual", "greater", "less"}

op_symbol(op) ==
  CASE op = "equal" -> "="
    [] op = "notEqual" -> "!="
    [] op = "greaterOrEqual" -> ">="
    [] op = "lessOrEqual" -> "<="
    [] op = "greater" -> ">"
    [] op = "less" -> "<"
    [] OTHER -> op

IsLogical(node) == node.xtype = "logical" /\ node.op \in {"and", "or"}

\* the left operand of a comparison: the display formula of a column
\* expression, the text of anything else
left_operand(kid) ==
  IF kid.xtype = "columnExpression" /\ find_columnFormula(kid) # << >>
  THEN text(find_columnFormula(kid)[1])
  ELSE text(kid)

\* the column of a 'prompted' leaf read as all the text of the operand
prompted_column_all_text(kid) == text(kid)

\* the column of a 'prompted' leaf
prompted_column(kid) ==
  IF kid.xtype = "sqlExpression" THEN text(kid)
  ELSE IF kid.xtype = "columnExpression"
       THEN IF find_columnFormula(kid) # << >>
            THEN text(find_columnFormula(kid)[1])
            ELSE kid.own
       ELSE IF kid.own # EmptyStr THEN kid.own
            ELSE LET sql == findall_descendants(kid.formula, "sqlExpression")
                 IN  IF sql # << >> THEN text(sql[1]) ELSE EmptyStr

build_single_filter_expression(node) ==
  LET kids == node.kids
      n == Len(kids)
  IN
  IF IsLogical(node) THEN EmptyStr
  ELSE IF node.op = "in" THEN
    IF n >= 1
    THEN LET column == text(kids[1])
             values == [i \in 1..(n-1) |-> text(kids[i+1])]
         IN  IF values # << >>
             THEN column \o <<SP, "IN", SP, "(">> \o StrJoin(<<",", SP>>, values) \o <<")">>
             ELSE column \o <<SP, "IN", SP, "(", ")">>
    ELSE EmptyStr
  ELSE IF node.op = "between" THEN
    IF n >= 3
    THEN text(kids[1]) \o <<SP, "BETWEEN", SP>> \o text(kids[2])
           \o <<SP, "AND", SP>> \o text(kids[3])
    ELSE IF n >= 1 THEN text(kids[1])
    ELSE EmptyStr
  ELSE IF node.xtype = "comparison" \/ node.op \in ComparisonOps THEN
    IF n >= 2
    THEN left_operand(kids[1]) \o <<SP, op_symbol(node.op), SP>> \o text(kids[2])
    ELSE IF n = 1 THEN text(kids[1])
    ELSE EmptyStr
  ELSE IF node.xtype = "special" /\ node.op = "prompted" THEN
    IF n >= 1
    THEN LET column == prompted_column(kids[1])
         IN  IF column # EmptyStr THEN column \o <<SP, "IS", SP, "PROMPTED">> ELSE EmptyStr
    ELSE EmptyStr
  ELSE EmptyStr

\* the quoted names of the sqlExpression descendants: parts[1] of the first
\* text that has one is the table, parts[3] of the first that has one the column
RECURSIVE quoted_names(_, _, _)
quoted_names(sqls, table_name, column_name) ==
  IF sqls = << >> THEN [table_name |-> table_name, column_name |-> column_name]
  ELSE LET expr_text == text(Head(sqls))
           parts == SplitOn(expr_text, DQ)
           hit == expr_text # EmptyStr /\ Contains(expr_text, <<DQ>>)
           t == IF hit /\ Len(parts) >= 2 /\ table_name = EmptyStr THEN parts[2] ELSE table_name
           c == IF hit /\ Len(parts) >= 4 /\ column_name = EmptyStr THEN parts[4] ELSE column_name
       IN  quoted_names(Tail(sqls), t, c)

NonEmpty(list) == SelectSeq(list, LAMBDA v : v # EmptyStr)

leaf_filter_value(node) ==
  LET kids == node.kids
      n == Len(kids)
  IN
  IF node.op = "prompted" THEN EmptyStr
  ELSE IF node.op = "in"
    THEN StrJoin(<<SP, "|", SP>>, NonEmpty([i \in 1..(n-1) |-> text(kids[i+1])]))
  ELSE IF node.op \in ComparisonOps
    THEN IF n >= 2 THEN text(kids[2]) ELSE EmptyStr
  ELSE IF node.op = "between"
    THEN IF n >= 3 THEN text(kids[2]) \o <<SP, "|", SP>> \o text(kids[3]) ELSE EmptyStr
  ELSE IF node.op \in {"null", "notNull", "isNull", "isNotNull"} THEN EmptyStr
  ELSE LET lits == NonEmpty([i \in 1..Len(findall_descendants(kids, "xsd:string")) |->
                               text(findall_descendants(kids, "xsd:string")[i])])
       IN  IF lits # << >> THEN lits[1] ELSE EmptyStr

\* 'IN' in expression_string.upper(): of the tokens of the model only the
\* word IN holds the letters I, N in a row
ContainsIN(s) == \E i \in 1..Len(s) : s[i] = "IN"

\* the repair of an incomplete expression once table and column are known
reconstruct_expression(op, expression_string, table_name, column_name, filter_value) ==
  IF table_name # EmptyStr /\ column_name # EmptyStr
  THEN IF expression_string # EmptyStr
          /\ Contains(expression_string, <<"IS", SP, "PROMPTED">>)
          /\ ~StartsWith(expression_string, DQ)
       THEN <<DQ>> \o table_name \o <<DQ, ".", DQ>> \o column_name \o <<DQ, SP, "IS", SP, "PROMPTED">>
       ELSE IF op = "in" /\ (expression_string = EmptyStr \/ ~ContainsIN(expression_string))
       THEN IF filter_value # EmptyStr
            THEN <<DQ>> \o table_name \o <<DQ, ".", DQ>> \o column_name \o <<DQ, SP, "IN", SP, "(">>
                   \o Replace(filter_value, <<SP, "|", SP>>, <<",", SP>>) \o <<")">>
            ELSE <<DQ>> \o table_name \o <<DQ, ".", DQ>> \o column_name \o <<DQ, SP, "IN", SP, "(", ")">>
       ELSE expression_string
  ELSE expression_string

\* the rows of one non-logical node
parse_leaf(node, parent_op) ==
  LET expression_string == build_single_filter_expression(node)
      names == quoted_names(findall_descendants(node.kids, "sqlExpression"), EmptyStr, EmptyStr)
      filter_value == leaf_filter_value(node)
  IN  IF expression_string = EmptyStr THEN << >>
      ELSE << [operator |-> node.op,
               parent_operator |-> parent_op,
               column_expression |-> reconstruct_expression(node.op, expression_string,
                                        names.table_name, names.column_name, filter_value),
               column_name |-> names.column_name,
               table_name |-> names.table_name,
               filter_value |-> filter_value] >>

\* The filter tree is kept in document order, one entry per element with its
\* nesting depth; the children of entry i are the entries one level deeper
\* that come before the next entry at the level of i or above.
InSubtree(doc, i, j) ==
  j > i /\ \A k \in (i+1)..j : doc[k].depth > doc[i].depth

\* findall(expr_elem, 'sawx:expr') of a logical node
child_exprs(doc, i) ==
  SelectSeq([j \in 1..Len(doc) |-> j],
            LAMBDA j : InSubtree(doc, i, j) /\ doc[j].depth = doc[i].depth + 1)

\* a flattener that keeps the op of the outermost logical node for every leaf
child_parent_op_outermost(op, parent_op) == IF parent_op = "" THEN op ELSE parent_op

\* the parent_op a logical node hands to the parse of its children
child_parent_op(op, parent_op) == op

RECURSIVE parse_filter_expression(_, _, _)
RECURSIVE parse_children(_, _, _)

parse_children(doc, children, op) ==
  IF children = << >> THEN << >>
  ELSE parse_filter_expression(doc, Head(children), op)
         \o parse_children(doc, Tail(children), op)

parse_filter_expression(doc, i, parent_op) ==
  IF IsLogical(doc[i])
  THEN parse_children(doc, child_exprs(doc, i), child_parent_op(doc[i].op, parent_op))
  ELSE parse_leaf(doc[i], parent_op)


-----------------------------------------------------------------------------
(* Filter trees handed to the flattener *)

ColT == <<DQ, "T", DQ, ".", DQ, "C", DQ>>

NoFormula == << >>

OpSql == [xtype |-> "sqlExpression", own |-> ColT, formula |-> NoFormula]
OpLit == [xtype |-> "xsd:string", own |-> <<"v">>, formula |-> NoFormula]
OpNote == [xtype |-> "sqlExpression",
           own |-> <<"x", SP, "IS", SP, "PROMPTED", SP>> \o ColT,
           formula |-> NoFormula]

Operands ==
  { OpSql, OpLit, OpNote,
    [xtype |-> "sqlExpression", own |-> <<SP>>, formula |-> NoFormula],
    [xtype |-> "columnExpression", own |-> <<SP>>, formula |-> <<OpSql>>],
    \* a column expression that holds text of its own next to its formula,
    \* a formula without quoted names
    [xtype |-> "columnExpression", own |-> <<"meta">>,
     formula |-> <<[xtype |-> "sqlExpression", own |-> <<"x">>, formula |-> NoFormula]>>] }

RECURSIVE SeqsUpTo(_, _)
SeqsUpTo(S, n) ==
  IF n = 0 THEN {<< >>}
  ELSE SeqsUpTo(S, n-1) \cup {Append(q, x) : q \in {r \in SeqsUpTo(S, n-1) : Len(r) = n-1}, x \in S}

Leaf(kind, kids) == [xtype |-> kind[1], op |-> kind[2], kids |-> kids]
Logical(op) == [xtype |-> "logical", op |-> op, kids |-> << >>]

At(depth, node) == [depth |-> depth, xtype |-> node.xtype, op |-> node.op, kids |-> node.kids]

Leaves ==
  {Leaf(kind, kids) :
     kind \in { <<"comparison", "equal">>, <<"list", "in">>, <<"comparison", "between">>,
                <<"special", "prompted">>, <<"special", "null">>, <<"special", "like">>,
                <<"comparison", "like">> },
     kids \in SeqsUpTo(Operands, MaxOperands)}

\* a single leaf, alone or under one logical node
LeafDocs ==
  {<<At(1, l)>> : l \in Leaves}
    \cup {<<At(1, Logical(op)), At(2, l)>> : op \in {"and", "or"}, l \in Leaves}

LeafA == Leaf(<<"comparison", "equal">>, <<OpSql, OpLit>>)
LeafIn == Leaf(<<"list", "in">>, <<OpSql>>)

TreeLabels == {LeafA, LeafIn, Leaf(<<"special", "null">>, <<OpSql>>), Logical("and"), Logical("or")}

\* the deepest level the next element of a document may have: a child of the
\* last element when that is a logical node, else a sibling of it
MaxChildDepth(d) ==
  IF IsLogical(d[Len(d)]) THEN d[Len(d)].depth + 1 ELSE d[Len(d)].depth

\* every tree of n elements over TreeLabels, in document order
RECURSIVE TreeDocsOfLen(_)
TreeDocsOfLen(n) ==
  IF n = 1 THEN {<<At(1, l)>> : l \in TreeLabels}
  ELSE UNION { {Append(d, At(k, l)) : k \in 2..MaxChildDepth(d), l \in TreeLabels} :
               d \in {e \in TreeDocsOfLen(n-1) : IsLogical(e[1])} }

FilterDocs == LeafDocs \cup UNION {TreeDocsOfLen(n) : n \in 1..MaxNodes}

-----------------------------------------------------------------------------
(* The flattener run on one filter tree *)

InitFilter ==
  /\ filter_doc \in FilterDocs
  /\ parsed_filters = << >>
  /\ fpc = "input"
  /\ MainIdle
  /\ PlacementIdle

\* parse_filter_expression(main_filter_expr), as create_filters_csv_data calls it
ParseFilterExpression ==
  /\ fpc = "input"
  /\ parsed_filters' = parse_filter_expression(filter_doc, 1, "")
  /\ fpc' = "parsed"
  /\ UNCHANGED filter_doc
  /\ UNCHANGED mainVars
  /\ UNCHANGED placementVars

NextFilter == ParseFilterExpression

SpecFilter == InitFilter /\ [][NextFilter]_vars

-----------------------------------------------------------------------------
(* Claims on the flattener *)

Indices(doc) == [j \in 1..Len(doc) |-> j]

\* the non-logical nodes whose own rendering is not empty, in document order
RenderedLeaves(doc) ==
  SelectSeq(Indices(doc),
            LAMBDA i : ~IsLogical(doc[i]) /\ build_single_filter_expression(doc[i]) # EmptyStr)

\* the op of the node that immediately encloses element i, "" for the root
EnclosingOp(doc, i) ==
  IF doc[i].depth = 1 THEN ""
  ELSE LET j == CHOOSE j \in 1..(i-1) :
                  /\ doc[j].depth = doc[i].depth - 1
                  /\ \A k \in (j+1)..(i-1) : doc[k].depth >= doc[i].depth
       IN  doc[j].op

\* C1 as stated: one row per non-logical node, each tagged with the op of
\* its immediately enclosing logical node
C1_OneRowPerLeaf ==
  fpc = "parsed" =>
    LET leaves == SelectSeq(Indices(filter_doc), LAMBDA i : ~IsLogical(filter_doc[i]))
    IN  /\ Len(parsed_filters) = Len(leaves)
        /\ \A k \in 1..Len(leaves) :
             k <= Len(parsed_filters) =>
               parsed_filters[k].parent_operator = EnclosingOp(filter_doc, leaves[k])

\* C1 amended: one row per non-logical node whose rendering is not empty, in
\* document order, none for a logical node, each row tagged with the op of
\* the node that immediately encloses its leaf
C1_OneRowPerRenderedLeaf ==
  fpc = "parsed" =>
    LET leaves == RenderedLeaves(filter_doc)
    IN  /\ Len(parsed_filters) = Len(leaves)
        /\ \A k \in 1..Len(leaves) :
             /\ parsed_filters[k].operator = filter_doc[leaves[k]].op
             /\ parsed_filters[k].parent_operator = EnclosingOp(filter_doc, leaves[k])
             /\ <<parsed_filters[k]>> = parse_leaf(filter_doc[leaves[k]], EnclosingOp(filter_doc, leaves[k]))

\* A and (B or C) has been flattened into three rows tagged and, or, or
C1_Witness ==
  /\ fpc = "parsed"
  /\ filter_doc = <<At(1, Logical("and")), At(2, LeafA), At(2, Logical("or")),
                    At(3, LeafA), At(3, LeafIn)>>
  /\ [k \in 1..Len(parsed_filters) |-> parsed_filters[k].parent_operator] = <<"and", "or", "or">>

\* the rows emitted for element i of the tree (none when it was dropped)
RowsOf(doc, rows, i) ==
  {rows[k] : k \in {k \in 1..Len(rows) :
                      k <= Len(RenderedLeaves(doc)) /\ RenderedLeaves(doc)[k] = i}}

InLeavesWithoutValues(doc) ==
  {i \in 1..Len(doc) : ~IsLogical(doc[i]) /\ doc[i].op = "in" /\ Len(doc[i].kids) = 1}

\* C2: an 'in' leaf that has its column operand and no value child yields a
\* row whose expression is exactly COLUMN IN () and whose filter value is empty
C2_EmptyInRendersColumnIn ==
  fpc = "parsed" =>
    \A i \in InLeavesWithoutValues(filter_doc) :
      /\ RowsOf(filter_doc, parsed_filters, i) # {}
      /\ \A r \in RowsOf(filter_doc, parsed_filters, i) :
           /\ r.column_expression = text(filter_doc[i].kids[1]) \o <<SP, "IN", SP, "(", ")">>
           /\ r.filter_value = EmptyStr

PartialBetweenLeaves(doc) ==
  {i \in 1..Len(doc) : ~IsLogical(doc[i]) /\ doc[i].op = "between" /\ Len(doc[i].kids) \in 1..2}

\* C3: a 'between' leaf with fewer than three children renders as the text
\* of its column operand alone, with an empty filter value
C3_PartialBetweenRendersColumn ==
  fpc = "parsed" =>
    \A i \in PartialBetweenLeaves(filter_doc) :
      \A r \in RowsOf(filter_doc, parsed_filters, i) :
        /\ r.column_expression = text(filter_doc[i].kids[1])
        /\ r.filter_value = EmptyStr

-----------------------------------------------------------------------------
(* Report Extractor *)

\* _VIEW_SUFFIX_RE = !\d+$ : the places where a '!' is followed by digits
\* only, up to the end of the name
SuffixStarts(name) ==
  {i \in 1..Len(name) : /\ name[i] = "!"
                        /\ i < Len(name)
                        /\ \A j \in (i+1)..Len(name) : name[j] \in {"0", "1", "2", "3", "4", "5", "6", "7", "8", "9"}}

normalize_view_name(name) ==
  IF name = EmptyStr THEN name
  ELSE IF SuffixStarts(name) = {} THEN name
  ELSE LET i == CHOOSE i \in SuffixStarts(name) : \A j \in SuffixStarts(name) : i <= j
       IN  SubSeq(name, 1, i-1)

\* the viewName attributes of the cvCell elements of every compound view,
\* in document order, empty ones left out
compound_children_order_raw(views) ==
  SelectSeq(Flatten([i \in 1..Len(views) |->
                       IF views[i].xtype = "compoundView" THEN views[i].cells ELSE << >>]),
            LAMBDA n : n # EmptyStr)

InSeq(x, q) == \E i \in 1..Len(q) : q[i] = x

\* a view record that carries the name without its positional suffix
view_name_raw_normalized(view) == normalize_view_name(view.name)

\* the raw name a view record carries
view_name_raw_of(view) == view.name

view_row(xml, view) ==
  LET raw == compound_children_order_raw(xml.views)
  IN  [view_name |-> normalize_view_name(view.name),
       view_name_raw |-> view_name_raw_of(view),
       view_xsi_type |-> view.xtype,
       current_view |-> xml.currentView,
       in_compound_view |-> InSeq(view.name, raw) \/ view.xtype = "compoundView",
       compound_children_order |->
         IF view.xtype = "compoundView"
         THEN [i \in 1..Len(raw) |-> normalize_view_name(raw[i])] ELSE << >>,
       compound_children_order_raw |->
         IF view.xtype = "compoundView" THEN raw ELSE << >>]

\* a column record that loses the id of its element
column_id_dropped(col) == ""

\* the column_id a column record carries
column_id_of(col) == col.columnID

column_row(col) ==
  [column_id |-> column_id_of(col),
   column_xsi_type |-> col.xtype,
   expr_xsi_type |-> col.expr_type,
   expression |-> NormWs(col.expr),
   table_heading |-> NormWs(col.table_heading),
   column_heading |-> NormWs(col.column_heading)]

TableLike(views) ==
  SelectSeq(views, LAMBDA v : v.xtype = "tableView")
    \o SelectSeq(views, LAMBDA v : v.xtype = "pivotTableView")

edge_layer_rows_of(view) ==
  [i \in 1..Len(view.edgeLayers) |->
     [view_name |-> normalize_view_name(view.name),
      column_id |-> view.edgeLayers[i].columnID,
      agg_rule |-> view.edgeLayers[i].aggRule]]

measures_list_rows_of(view) ==
  [i \in 1..Len(view.measures) |->
     [view_name |-> normalize_view_name(view.name),
      column_id |-> view.measures[i].columnID,
      agg_rule |-> view.measures[i].aggRule]]

chart_row(view) ==
  [view_name |-> normalize_view_name(view.name),
   display_type |-> view.display_type,
   display_subtype |-> view.display_subtype]

chart_category_rows_of(view) ==
  [i \in 1..Len(view.categories) |->
     [view_name |-> normalize_view_name(view.name), column_id |-> view.categories[i]]]

chart_measure_rows_of(view) ==
  [i \in 1..Len(view.chartMeasures) |->
     [view_name |-> normalize_view_name(view.name),
      measure_type |-> view.chartMeasures[i].measureType,
      riser_type |-> view.chartMeasures[i].riserType,
      column_id |-> view.chartMeasures[i].columnID]]

Charts(views) == SelectSeq(views, LAMBDA v : v.xtype = "dvtchart")
Pivots(views) == SelectSeq(views, LAMBDA v : v.xtype = "pivotTableView")

\* parse_report: the record sets of one report document
parse_report(xml) ==
  [report_rows |-> << [subject_area |-> xml.subjectArea] >>,
   column_rows |-> [i \in 1..Len(xml.columns) |-> column_row(xml.columns[i])],
   column_order_rows |->
     [i \in 1..Len(xml.columnOrders) |->
        [column_id |-> xml.columnOrders[i].columnID, direction |-> xml.columnOrders[i].direction]],
   view_rows |-> [i \in 1..Len(xml.views) |-> view_row(xml, xml.views[i])],
   edge_layer_rows |->
     Flatten([i \in 1..Len(TableLike(xml.views)) |-> edge_layer_rows_of(TableLike(xml.views)[i])]),
   chart_rows |-> [i \in 1..Len(Charts(xml.views)) |-> chart_row(Charts(xml.views)[i])],
   chart_category_rows |->
     Flatten([i \in 1..Len(Charts(xml.views)) |-> chart_category_rows_of(Charts(xml.views)[i])]),
   chart_measure_rows |->
     Flatten([i \in 1..Len(Charts(xml.views)) |-> chart_measure_rows_of(Charts(xml.views)[i])]),
   pivot_measures_rows |->
     Flatten([i \in 1..Len(Pivots(xml.views)) |-> measures_list_rows_of(Pivots(xml.views)[i])])]

-----------------------------------------------------------------------------
(* Catalog Resolver: ChartType *)

\* str.isdigit() and int() on the currentView attribute
IntOf == ("0" :> 0) @@ ("1" :> 1) @@ ("2" :> 2) @@ ("7" :> 7)
IsDigitStr(str) == str \in DOMAIN IntOf

\* a selection that reads the current-view index as one-based
selected_child_name_raw_one_based(compound_view) ==
  LET order_raw == compound_view.compound_children_order_raw
      idx_str == compound_view.current_view
  IN  IF IsDigitStr(idx_str) /\ IntOf[idx_str] >= 1 /\ IntOf[idx_str] <= Len(order_raw)
      THEN order_raw[IntOf[idx_str]]
      ELSE EmptyStr

\* the raw child name the current-view index selects, '' when it selects none
selected_child_name_raw(compound_view) ==
  LET order_raw == compound_view.compound_children_order_raw
      idx_str == compound_view.current_view
  IN  IF IsDigitStr(idx_str) /\ IntOf[idx_str] < Len(order_raw)
      THEN order_raw[IntOf[idx_str] + 1]
      ELSE EmptyStr

chart_type_of(view, chart_rows) ==
  IF view.view_xsi_type = "dvtchart"
  THEN LET infos == SelectSeq(chart_rows, LAMBDA c : c.view_name = view.view_name)
       IN  IF infos # << >>
           THEN IF infos[1].display_subtype # EmptyStr
                THEN infos[1].display_type \o <<"_">> \o infos[1].display_subtype
                ELSE infos[1].display_type
           ELSE <<"chart">>
  ELSE IF view.view_xsi_type = "tableView" THEN <<"table">>
  ELSE IF view.view_xsi_type = "pivotTableView" THEN <<"pivot">>
  ELSE IF view.view_xsi_type = "titleView" THEN <<"title">>
  ELSE <<view.view_xsi_type>>

charttype_row(rv, view, chart_rows, current) ==
  [WorksheetName |-> rv.page_name,
   ReportName |-> rv.caption,
   ReportNameTag |-> rv.report_view_name,
   ViewId |-> view.view_name_raw,
   ViewType |-> view.view_xsi_type,
   ChartType |-> chart_type_of(view, chart_rows),
   IsCurrentView |-> current,
   Reason |-> EmptyStr,
   ReportPath |-> rv.report_path]

\* the ChartType rows of one report-view reference that resolved to a report
charttype_rows_of_report(rv, report_data) ==
  LET view_rows == report_data.view_rows
      compounds == SelectSeq(view_rows, LAMBDA v : v.view_xsi_type = "compoundView")
  IN  IF compounds # << >>
      THEN LET selected == selected_child_name_raw(compounds[1])
               shown == SelectSeq(view_rows, LAMBDA v : v.view_xsi_type # "compoundView")
           IN  [i \in 1..Len(shown) |->
                  charttype_row(rv, shown[i], report_data.chart_rows,
                                IF shown[i].view_name_raw = selected THEN "Yes" ELSE "No")]
      ELSE [i \in 1..Len(view_rows) |->
              charttype_row(rv, view_rows[i], report_data.chart_rows, "No")]

-----------------------------------------------------------------------------
(* Catalog Resolver: Worksheets *)

\* str.lower() on the tokens that have upper-case letters
LowerMap ==
  ("Volume" :> "volume") @@ ("VOLUME" :> "volume") @@ ("T" :> "t") @@ ("C" :> "c")
    @@ ("Scheduled Pick Date" :> "scheduled pick date")
    @@ ("Transaction Details" :> "transaction details")
    @@ ("As Of Date" :> "as of date")
    @@ ("Key Reporting Fields" :> "key reporting fields")
    @@ ("Sales" :> "sales") @@ ("NQ_SESSION" :> "nq_session")
    @@ ("SAW_DASHBOARD" :> "saw_dashboard") @@ ("VALUEOF" :> "valueof")
    @@ ("CASE" :> "case") @@ ("IFERROR" :> "iferror")
    @@ ("SHARED" :> "shared") @@ ("R1" :> "r1") @@ ("Page" :> "page")

Lower(str) ==
  [i \in 1..Len(str) |-> IF str[i] \in DOMAIN LowerMap THEN LowerMap[str[i]] ELSE str[i]]

\* the first place at or after from where str holds the token c, 0 if none
NextIdx(str, from, c) ==
  IF \E j \in from..Len(str) : str[j] = c
  THEN CHOOSE j \in from..Len(str) : str[j] = c /\ \A k \in from..(j-1) : str[k] # c
  ELSE 0

\* the first place at or after from that holds no blank, Len+1 if none
SkipSp(str, from) ==
  IF \E j \in from..Len(str) : str[j] # SP
  THEN CHOOSE j \in from..Len(str) : str[j] # SP /\ \A k \in from..(j-1) : str[k] = SP
  ELSE Len(str) + 1

\* "([^"\\]+)"\s*\.\s*"([^"\\]+)" tried at place i
MatchPairAt(str, i) ==
  LET matched(close1, open2, close2) ==
        IF close2 > open2 + 1 /\ open2 > 0
        THEN [ok |-> TRUE, t |-> SubSeq(str, i+1, close1-1),
              c |-> SubSeq(str, open2+1, close2-1), end |-> close2]
        ELSE [ok |-> FALSE, t |-> EmptyStr, c |-> EmptyStr, end |-> i]
      second_name(close1, open2) ==
        matched(close1, open2,
                IF open2 > 0 /\ open2 <= Len(str) /\ str[open2] = DQ
                THEN NextIdx(str, open2+1, DQ) ELSE 0)
      after_dot(close1, dot) ==
        second_name(close1,
                    IF dot > 0 /\ dot <= Len(str) /\ str[dot] = "."
                    THEN SkipSp(str, dot+1) ELSE 0)
      first_name(close1) ==
        after_dot(close1, IF close1 > i+1 THEN SkipSp(str, close1+1) ELSE 0)
  IN  first_name(IF str[i] = DQ THEN NextIdx(str, i+1, DQ) ELSE 0)

\* re.findall of the pair pattern: the matches from left to right
RECURSIVE FindPairs(_, _)
FindPairs(str, i) ==
  IF i > Len(str) THEN << >>
  ELSE LET found(m) ==
             IF m.ok THEN <<[t |-> m.t, c |-> m.c]>> \o FindPairs(str, m.end + 1)
             ELSE FindPairs(str, i + 1)
       IN  found(MatchPairAt(str, i))

\* the first occurrence of each element, in order
RECURSIVE Dedupe(_)
Dedupe(q) ==
  IF q = << >> THEN << >>
  ELSE LET front == Dedupe(SubSeq(q, 1, Len(q)-1))
       IN  IF InSeq(q[Len(q)], front) THEN front ELSE Append(front, q[Len(q)])

IsValueOf(tok) == tok \in {"VALUEOF", "valueof"}

\* VALUEOF\s*\(\s*([^)]+)\s*\) tried at place i: the text between the
\* parentheses, << >> when there is no match
ValueOfAt(str, i) ==
  LET content(open, close) ==
        IF close > open + 1 /\ open > 0
        THEN <<SubSeq(str, open+1, close-1)>>
        ELSE << >>
      parenthesis(open) ==
        content(open, IF open > 0 /\ open <= Len(str) /\ str[open] = "("
                      THEN NextIdx(str, open+1, ")") ELSE 0)
  IN  parenthesis(IF IsValueOf(str[i]) THEN SkipSp(str, i+1) ELSE 0)

\* the table and column of the first VALUEOF(table.column) of the expression
valueof_names(expression) ==
  LET split(content, parts) ==
        IF Contains(content, <<".">>) /\ Len(parts) >= 2
        THEN <<[t |-> Strip(parts[1]), c |-> Strip(parts[2])]>>
        ELSE << >>
      group(content) == split(content, SplitOn(content, "."))
      first(hits) ==
        IF (\E i \in 1..Len(expression) : IsValueOf(expression[i]))
           /\ Contains(expression, <<".">>) /\ hits # {}
        THEN group(ValueOfAt(expression, CHOOSE i \in hits : \A j \in hits : i <= j)[1])
        ELSE << >>
  IN  first({i \in 1..Len(expression) : ValueOfAt(expression, i) # << >>})

\* table_names and column_names of a column: the quoted pairs of its
\* expression, then a VALUEOF reference, else its headings
column_names_of(col) ==
  LET names(tables, columns) ==
        IF tables = << >> /\ columns = << >>
        THEN [table_names |-> IF col.table_heading # EmptyStr
                              THEN <<col.table_heading>> ELSE << >>,
              column_names |-> IF col.column_heading # EmptyStr
                               THEN <<col.column_heading>> ELSE << >>]
        ELSE [table_names |-> tables, column_names |-> columns]
      of_pairs(pairs) ==
        names([i \in 1..Len(pairs) |-> pairs[i].t], [i \in 1..Len(pairs) |-> pairs[i].c])
  IN  of_pairs(Dedupe(FindPairs(col.expression, 1)) \o valueof_names(col.expression))

\* a dict as the sequence of its items in insertion order
RECURSIVE DictSet(_, _, _)
DictSet(dict, key, val) ==
  IF dict = << >> THEN <<[key |-> key, val |-> val]>>
  ELSE IF dict[1].key = key THEN <<[key |-> key, val |-> val]>> \o Tail(dict)
  ELSE <<dict[1]>> \o DictSet(Tail(dict), key, val)

RECURSIVE DictOf(_, _)
DictOf(items, dict) ==
  IF items = << >> THEN dict
  ELSE DictOf(Tail(items), DictSet(dict, items[1].key, items[1].val))

DictHas(dict, key) == \E i \in 1..Len(dict) : dict[i].key = key
DictGet(dict, key, default) ==
  IF DictHas(dict, key) THEN dict[CHOOSE i \in 1..Len(dict) : dict[i].key = key].val
  ELSE default

\* agg_by_map: the non-empty rules of the pivot measures, then of the edge layers
agg_by_map(report_data) ==
  LET rules == report_data.pivot_measures_rows \o report_data.edge_layer_rows
      items == [i \in 1..Len(rules) |->
                  [key |-> <<rules[i].view_name, rules[i].column_id>>, val |-> rules[i].agg_rule]]
  IN  DictOf(SelectSeq(items, LAMBDA it : it.val # ""), << >>)

summerized_by(aggs, normalized_view_name, col_id) ==
  LET own == DictGet(aggs, <<normalized_view_name, col_id>>, "")
      any == SelectSeq(aggs, LAMBDA it : it.key[2] = col_id /\ it.val # "")
  IN  IF own = "" /\ normalized_view_name = EmptyStr /\ any # << >> THEN any[1].val ELSE own

\* col_map: the last column row of each id
col_map(column_rows) ==
  DictOf([i \in 1..Len(column_rows) |-> [key |-> column_rows[i].column_id, val |-> column_rows[i]]],
         << >>)

\* re.findall(r'saw_\d+', expression)
SawKey == ("saw_0" :> 0) @@ ("saw_1" :> 1) @@ ("saw_01" :> 1) @@ ("saw_2" :> 2)

\* the elements of a set in the order its iteration yields them: the order
\* the string hashes of the process put them in
set_iteration(elems, hash_order) == SelectSeq(hash_order, LAMBDA x : x \in elems)

\* sorted(q, key): stable
RECURSIVE SortedByKey(_)
SortedByKey(q) ==
  IF q = << >> THEN << >>
  ELSE LET rest == SortedByKey(SubSeq(q, 1, Len(q)-1))
           x == q[Len(q)]
           before == SelectSeq(rest, LAMBDA y : SawKey[y] <= SawKey[x])
           after == SelectSeq(rest, LAMBDA y : SawKey[y] > SawKey[x])
       IN  before \o <<x>> \o after

\* sorted(set(col_refs), key=...): col_refs are the saw_ tokens of the
\* expression
unique_refs(expression, hash_order) ==
  SortedByKey(set_iteration({expression[i] : i \in {j \in 1..Len(expression) :
                                                       expression[j] \in DOMAIN SawKey}},
                            hash_order))

\* a column without expression type counted as derived
is_derived_when_untyped(expr_type, expression) ==
  \/ expr_type # "sqlExpression"
  \/ \E i \in 1..Len(expression) : expression[i] \in {"CASE", "case", "Showcase"}
  \/ Contains(expression, <<"(">>)

\* 'CASE' in expression.upper(): the tokens that hold these letters
is_derived(expr_type, expression) ==
  \/ expr_type \notin {"sqlExpression", ""}
  \/ \E i \in 1..Len(expression) : expression[i] \in {"CASE", "case", "Showcase"}
  \/ Contains(expression, <<"(">>)

banned_tables ==
  { <<"volume">>, <<"key reporting fields">>,
    <<"actual ship date additional information">>,
    <<"invoice date additional information">>,
    <<"scheduled pick date additional information">> }

banned_unions ==
  { <<"scheduled pick date", "|", "transaction details", "|", "as of date">> }

\* a denylist test that compares the table tokens as they are written
has_banned_table_exact(table_names) ==
  \E i \in 1..Len(table_names) : table_names[i] \in banned_tables

\* the row is skipped because one of its table tokens is on the denylist
has_banned_table(table_names) ==
  \E i \in 1..Len(table_names) : Strip(Lower(table_names[i])) \in banned_tables

\* the row is skipped because its joined table names are a banned union
is_banned_union(table_names_joined) ==
  table_names_joined # EmptyStr /\ Strip(Lower(table_names_joined)) \in banned_unions

\* view ids taken from the children of the compound view only
ids_to_emit_compound_children(view_rows) ==
  Flatten([i \in 1..Len(view_rows) |->
             IF view_rows[i].view_xsi_type = "compoundView"
             THEN view_rows[i].compound_children_order_raw ELSE << >>])

\* the view ids a report's rows are emitted for: every named non-compound view
ids_to_emit(view_rows) ==
  Dedupe(SelectSeq([i \in 1..Len(view_rows) |->
                      IF view_rows[i].view_xsi_type # "compoundView"
                      THEN view_rows[i].view_name_raw ELSE EmptyStr],
                   LAMBDA n : n # EmptyStr))

\* a gate that skips no column
column_is_skipped_never(names) == FALSE

\* the gates on a column before its rows are emitted: its pipe-joined table
\* names hold IFERROR, one of its tables is on the denylist, or the joined
\* names are a banned union
column_is_skipped(names) ==
  LET skipped(table_names_joined) ==
        \/ Contains(table_names_joined, <<"IFERROR">>)
        \/ Contains(table_names_joined, <<"iferror">>)
        \/ names.table_names # << >> /\ has_banned_table(names.table_names)
        \/ is_banned_union(table_names_joined)
  IN  skipped(StrJoin(<<"|">>, names.table_names))

\* the Worksheets rows emitted for one column of a resolved report: one per
\* view id
worksheet_rows_emitted(rv, report_data, col, names, hash_order) ==
  LET derived == is_derived(col.expr_xsi_type, col.expression)
      x_axis == \E i \in 1..Len(report_data.chart_category_rows) :
                   report_data.chart_category_rows[i].column_id = col.column_id
      source_expressions(cols, source_column_ids) ==
        [i \in 1..Len(source_column_ids) |->
           IF DictHas(cols, source_column_ids[i])
           THEN DictGet(cols, source_column_ids[i], << >>).expression ELSE EmptyStr]
      encoding(y_rows) ==
        IF y_rows # << >>
        THEN (IF y_rows[Len(y_rows)].riser_type # ""
              THEN y_rows[Len(y_rows)].riser_type ELSE "measure")
        ELSE IF x_axis THEN "category" ELSE ""
      rows(source_column_ids, y_rows, emit) ==
        [i \in 1..Len(emit) |->
           [WorksheetName |-> rv.page_name,
            ReportName |-> rv.caption,
            ReportNameTag |-> rv.report_view_name,
            ViewId |-> emit[i],
            DataSourceName |-> report_data.report_rows[1].subject_area,
            TableNames |-> StrJoin(<<"|">>, names.table_names),
            ColumnNames |-> StrJoin(<<"|">>, names.column_names),
            Formula |-> col.expression,
            ColumnId |-> col.column_id,
            ColumnType |-> col.column_xsi_type,
            ExpressionType |-> col.expr_xsi_type,
            X |-> IF x_axis THEN 1 ELSE 0,
            Y |-> IF y_rows # << >> THEN 1 ELSE 0,
            Encoding |-> encoding(y_rows),
            Summerized_by |-> summerized_by(agg_by_map(report_data),
                                            normalize_view_name(rv.report_view_name),
                                            col.column_id),
            IsDerived |-> IF derived THEN "Yes" ELSE "No",
            SourceColumnIds |-> StrJoin(<<"|">>, [k \in 1..Len(source_column_ids) |->
                                                    <<source_column_ids[k]>>]),
            SourceExpressions |->
              StrJoin(<<"|">>, source_expressions(col_map(report_data.column_rows),
                                                  source_column_ids)),
            ReportPath |-> rv.report_path]]
      emitted(ids) == IF ids # << >> THEN ids ELSE <<EmptyStr>>
  IN  rows(IF derived THEN unique_refs(col.expression, hash_order) ELSE << >>,
           SelectSeq(report_data.chart_measure_rows, LAMBDA m : m.column_id = col.column_id),
           emitted(ids_to_emit(report_data.view_rows)))

\* the Worksheets rows of one column of a resolved report, none when a gate
\* skips the column
worksheet_rows_of_column(rv, report_data, col, hash_order) ==
  LET of_names(names) ==
        IF column_is_skipped(names) THEN << >>
        ELSE worksheet_rows_emitted(rv, report_data, col, names, hash_order)
  IN  of_names(column_names_of(col))

\* the placeholder row of a report-view reference that resolves to no report
worksheet_placeholder_row(rv) ==
  [WorksheetName |-> rv.page_name, ReportName |-> rv.caption,
   ReportNameTag |-> rv.report_view_name, ViewId |-> EmptyStr,
   DataSourceName |-> EmptyStr, TableNames |-> EmptyStr, ColumnNames |-> EmptyStr,
   Formula |-> EmptyStr, ColumnId |-> "", ColumnType |-> "", ExpressionType |-> "",
   X |-> 0, Y |-> 0, Encoding |-> "", Summerized_by |-> "", IsDerived |-> "",
   SourceColumnIds |-> EmptyStr, SourceExpressions |-> EmptyStr,
   ReportPath |-> rv.report_path]

\* urllib.parse.unquote on the escapes of the alphabet
Unquote(str) ==
  [i \in 1..Len(str) |-> IF str[i] = "%2e" THEN "." ELSE IF str[i] = "%2f" THEN "/" ELSE str[i]]

\* s.strip('/')
RECURSIVE StripSlash(_)
StripSlash(str) ==
  IF str # << >> /\ Head(str) = "/" THEN StripSlash(Tail(str))
  ELSE IF str # << >> /\ str[Len(str)] = "/" THEN StripSlash(SubSeq(str, 1, Len(str)-1))
  ELSE str

\* os.path.basename
basename(path) == LET parts == SplitOn(path, "/") IN parts[Len(parts)]

\* a lookup by the full path only
lookup_report_full_path_only(reports, report_path) ==
  LET full == SelectSeq(reports, LAMBDA it : Lower(it.key) = Lower(Unquote(report_path)))
  IN  IF full # << >> THEN <<full[Len(full)].val>> ELSE << >>

\* reports_map_lower.get(...), then reports_by_basename_lower.get(...): a
\* sequence of at most one report info
lookup_report(reports, report_path) ==
  LET decoded == Lower(Unquote(report_path))
      full == SelectSeq(reports, LAMBDA it : Lower(it.key) = decoded)
      base == Lower(basename(StripSlash(Unquote(report_path))))
      by_base == SelectSeq(reports,
                           LAMBDA it : /\ Lower(basename(StripSlash(it.key))) = base
                                       /\ base # EmptyStr)
  IN  IF full # << >> THEN <<full[Len(full)].val>>
      ELSE IF by_base # << >> THEN <<by_base[1].val>>
      ELSE << >>

create_worksheets_csv_data(agg_dashboard_report_views, reports, hash_order) ==
  Flatten([r \in 1..Len(agg_dashboard_report_views) |->
    LET rv == agg_dashboard_report_views[r]
        report_info == lookup_report(reports, rv.report_path)
    IN  IF report_info # << >>
        THEN LET report_data == report_info[1].report_data
             IN  Flatten([c \in 1..Len(report_data.column_rows) |->
                            worksheet_rows_of_column(rv, report_data,
                                                     report_data.column_rows[c], hash_order)])
        ELSE <<worksheet_placeholder_row(rv)>>])

\* the pattern of _filter_erroneous_tablenames_rows matches the one text
\* SUM (saw_n by ...) - SUM (saw_m by ...), here a single token
SumDiff == "SUM (saw_4 by saw_1, saw_2, saw_3, saw_0, saw_10, saw_11, saw_12) - SUM (saw_5 by saw_1, saw_2, saw_3, saw_0, saw_10, saw_11, saw_12)"

_filter_erroneous_tablenames_rows(rows) ==
  SelectSeq(rows, LAMBDA r : Strip(r.TableNames) # EmptyStr /\ Strip(r.TableNames) # <<SumDiff>>)

\* the OBIEE variable syntax @{biServer.variables['Rvar_Curr_MonthName']}, a
\* single token
BiServerVariable == "@{biServer.variables['Rvar_Curr_MonthName']}"

_normalize_columnnames_biserver_variables(rows) ==
  [i \in 1..Len(rows) |->
     IF Strip(rows[i].ColumnNames) = <<BiServerVariable>>
     THEN [rows[i] EXCEPT !.ColumnNames = <<"Rvar_Curr_MonthName">>]
     ELSE rows[i]]

charttype_not_found_row(rv) ==
  [WorksheetName |-> rv.page_name, ReportName |-> rv.caption,
   ReportNameTag |-> rv.report_view_name, ViewId |-> EmptyStr, ViewType |-> "",
   ChartType |-> <<"unknown">>, IsCurrentView |-> "No",
   Reason |-> <<"Report not found at path: ">> \o rv.report_path,
   ReportPath |-> rv.report_path]

create_charttype_csv_data(agg_dashboard_report_views, reports) ==
  Flatten([r \in 1..Len(agg_dashboard_report_views) |->
    LET rv == agg_dashboard_report_views[r]
        report_info == lookup_report(reports, rv.report_path)
    IN  IF report_info # << >>
        THEN charttype_rows_of_report(rv, report_info[1].report_data)
        ELSE <<charttype_not_found_row(rv)>>])

-----------------------------------------------------------------------------
(* Catalog Resolver: Filters *)

\* the ReportFilter rows and the Sort rows of one resolved report-view
\* reference; the report file is read again for its filter
filter_rows_of_report(rv, report_info) ==
  LET report_data == report_info.report_data
      cols == col_map(report_data.column_rows)
      parsed == IF report_info.xml.filter # << >>
                THEN parse_filter_expression(report_info.xml.filter, 1, "") ELSE << >>
      orders == report_data.column_order_rows
  IN  [i \in 1..Len(parsed) |->
         [WorksheetName |-> rv.page_name, ReportName |-> rv.caption,
          FilterType |-> "ReportFilter", ColumnId |-> "",
          Expression |-> parsed[i].column_expression,
          Operator |-> parsed[i].operator,
          ParentOperator |-> parsed[i].parent_operator,
          FilterValue |-> parsed[i].filter_value,
          ReportPath |-> rv.report_path]]
      \o
      [i \in 1..Len(orders) |->
         [WorksheetName |-> rv.page_name, ReportName |-> rv.caption,
          FilterType |-> "Sort", ColumnId |-> orders[i].column_id,
          Expression |-> IF DictHas(cols, orders[i].column_id)
                         THEN DictGet(cols, orders[i].column_id, << >>).expression
                         ELSE EmptyStr,
          Operator |-> "", ParentOperator |-> "", FilterValue |-> EmptyStr,
          ReportPath |-> rv.report_path]]

\* prompts_map_lower.get(filter_path.lower()), then the re-encoded path
lookup_prompt(prompts, filter_path) ==
  LET plain == SelectSeq(prompts, LAMBDA it : Lower(it.key) = Lower(filter_path))
      encoded == Lower(Replace(Replace(filter_path, <<".">>, <<"%2e">>), <<SP>>, <<"+">>))
      coded == SelectSeq(prompts, LAMBDA it : Lower(it.key) = encoded)
  IN  IF plain # << >>
      THEN <<plain[Len(plain)].val>>
      ELSE IF coded # << >> THEN <<coded[Len(coded)].val>>
      ELSE << >>

\* the rows of one global-filter reference: one per prompt of the prompt
\* document it resolves to, else one fallback row
filter_rows_of_global_filter(gf, prompts) ==
  LET prompt_info == lookup_prompt(prompts, gf.filter_path)
  IN  IF prompt_info # << >>
      THEN [i \in 1..Len(prompt_info[1].prompt_data) |->
              LET prompt_data == prompt_info[1].prompt_data[i]
              IN  [WorksheetName |-> gf.page_name, ReportName |-> EmptyStr,
                   FilterType |-> IF prompt_info[1].view_type # ""
                                  THEN prompt_info[1].view_type ELSE "Prompt",
                   ColumnId |-> prompt_data.column_id,
                   Expression |->
                     IF /\ prompt_data.operator = "in" /\ prompt_data.expression # EmptyStr
                        /\ ~ContainsIN(prompt_data.expression)
                        /\ prompt_data.table_name # EmptyStr
                        /\ prompt_data.column_name # EmptyStr
                     THEN Pair(prompt_data.table_name, prompt_data.column_name)
                            \o <<SP, "IN", SP, "(">> \o prompt_data.default_values \o <<")">>
                     ELSE prompt_data.expression,
                   Operator |-> prompt_data.operator,
                   ParentOperator |-> "", FilterValue |-> prompt_data.default_values,
                   ReportPath |-> gf.filter_path]]
      ELSE <<[WorksheetName |-> gf.page_name, ReportName |-> EmptyStr,
              FilterType |-> "Prompt", ColumnId |-> "", Expression |-> EmptyStr,
              Operator |-> "", ParentOperator |-> "", FilterValue |-> EmptyStr,
              ReportPath |-> gf.filter_path]>>

create_filters_csv_data(agg_dashboard_report_views, agg_dashboard_global_filters, reports, prompts) ==
  Flatten([r \in 1..Len(agg_dashboard_report_views) |->
    LET rv == agg_dashboard_report_views[r]
        report_info == lookup_report(reports, rv.report_path)
    IN  IF report_info # << >> THEN filter_rows_of_report(rv, report_info[1]) ELSE << >>])
  \o
  Flatten([g \in 1..Len(agg_dashboard_global_filters) |->
    filter_rows_of_global_filter(agg_dashboard_global_filters[g], prompts)])

-----------------------------------------------------------------------------
(* Batch Driver *)

\* A file of the corpus has the directory it lies in (relative to the input
\* root), its name, and its content: ok is FALSE when the content is not
\* well-formed XML, so that ET.parse raises.  parse_report,
\* parse_dashboard_layout and parse_dashboard_page let every error of theirs
\* pass to the handler of their caller, whatever step raises it.

LayoutName == <<"dashboard", "+", "layout", ".xml">>
LayoutNameBare == <<"dashboard", "+", "layout">>

EndsWith(str, tok) == str # << >> /\ str[Len(str)] = tok

\* os.path.splitext(fname)[0]
splitext(fname) ==
  IF EndsWith(fname, ".xml") \/ EndsWith(fname, ".atr")
  THEN SubSeq(fname, 1, Len(fname)-1) ELSE fname

file_path_of(file) == file.dir \o <<"/">> \o file.fname

\* the catalog path a discovered file is registered under
report_path_of(file) ==
  LET path == <<"/">> \o Unquote(Replace(file_path_of(file), <<"+">>, <<SP>>))
  IN  IF EndsWith(path, ".xml") THEN SubSeq(path, 1, Len(path)-1) ELSE path

\* A prompt element has its saw:formula element or none (present) and the
\* texts of that element's children (kids).  The expression of a prompt is
\* the text of the first child of its formula, '' without formula element;
\* a formula element without children assigns nothing, so that the value of
\* the prompt before stays, and the variable is unbound in the first prompt.
\* An expression is << >> when unbound and <<text>> otherwise.

\* a loop that starts every prompt with an unbound expression
prompt_expression_unbound(prompt, stale) ==
  IF prompt.formula.kids # << >> THEN <<NormWs(prompt.formula.kids[1])>>
  ELSE IF prompt.formula.present THEN << >> ELSE <<EmptyStr>>

prompt_expression(prompt, stale) ==
  IF prompt.formula.kids # << >> THEN <<NormWs(prompt.formula.kids[1])>>
  ELSE IF prompt.formula.present THEN stale ELSE <<EmptyStr>>

prompt_row(prompt, expression) ==
  LET named_by(parts) ==
        [column_id |-> prompt.columnID,
         expression |-> expression,
         operator |-> prompt.op,
         default_values |-> StrJoin(<<"|">>, prompt.defaults),
         table_name |-> IF Contains(expression, <<DQ>>) /\ Len(parts) >= 2
                        THEN parts[2] ELSE EmptyStr,
         column_name |-> IF Contains(expression, <<DQ>>) /\ Len(parts) >= 4
                         THEN parts[4] ELSE EmptyStr]
  IN  named_by(SplitOn(expression, DQ))

\* the loop over the prompt elements: reading an unbound expression raises,
\* the handler of parse_global_filter_prompt swallows the error and the
\* prompts appended so far are returned
RECURSIVE extract_prompts(_, _, _)
extract_prompts(elems, stale, prompts) ==
  IF elems = << >> THEN prompts
  ELSE LET step(expression) ==
             IF expression = << >> THEN prompts
             ELSE extract_prompts(Tail(elems), expression,
                                  Append(prompts, prompt_row(Head(elems), expression[1])))
       IN  step(prompt_expression(Head(elems), stale))

\* a document that is not well-formed raises in ET.parse, inside the handler
parse_global_filter_prompt(file) ==
  IF file.ok
  THEN [view_type |-> file.doc.root_type,
        prompt_data |-> extract_prompts(file.doc.prompts, << >>, << >>)]
  ELSE [view_type |-> "", prompt_data |-> << >>]

is_report_candidate(file) ==
  /\ ~Contains(Lower(file.fname), <<"dashboard", "+", "layout">>)
  /\ ~(Len(file.fname) >= 2 /\ Lower(SubSeq(file.fname, 1, 2)) = <<"page", "+">>)

is_scanned(file) ==
  ~(EndsWith(file.fname, ".atr") \/ Contains(Lower(file.fname), <<"page", "+">>))

\* one file of the walk registers as a prompt
registers_prompt(file) ==
  /\ is_scanned(file)
  /\ Contains(Lower(file.fname), <<"prompt">>) \/ Contains(Lower(file.dir), <<"prompt">>)
  /\ parse_global_filter_prompt(file).prompt_data # << >>

\* a walk that registers a report for a file that fails to parse
registers_report_unchecked(file) ==
  is_scanned(file) /\ ~registers_prompt(file) /\ is_report_candidate(file)

\* one file of the walk registers as a report; a file that fails to parse is
\* skipped
registers_report(file) ==
  is_scanned(file) /\ ~registers_prompt(file) /\ is_report_candidate(file) /\ file.ok

process_all_reports_recursively(files) ==
  [reports_map |->
     DictOf([i \in 1..Len(SelectSeq(files, registers_report)) |->
               LET file == SelectSeq(files, registers_report)[i]
               IN  [key |-> report_path_of(file),
                    val |-> [file_path |-> file_path_of(file),
                             report_path |-> report_path_of(file),
                             xml |-> file.doc,
                             report_data |-> parse_report(file.doc)]]], << >>),
   prompts_map |->
     DictOf([i \in 1..Len(SelectSeq(files, registers_prompt)) |->
               LET file == SelectSeq(files, registers_prompt)[i]
               IN  [key |-> report_path_of(file),
                    val |-> [file_path |-> file_path_of(file),
                             prompt_path |-> report_path_of(file),
                             view_type |-> parse_global_filter_prompt(file).view_type,
                             prompt_data |-> parse_global_filter_prompt(file).prompt_data]]],
            << >>)]

\* A page document has its duid and its sawd:dashboardColumn children; a
\* column element has its name, its duid and its sawd:dashboardSection
\* children; a section element has its name, its duid and its children of the
\* kinds reportView, globalFilterView and actionLinkView, each kind in
\* document order.  An action-link view has its sawd:actionLink child or
\* none (link).

\* the records of the report views of one section
report_views_of_section(file, page_name, dashboard_name, column, section) ==
  [i \in 1..Len(section.reportViews) |->
     [dashboard_name |-> dashboard_name, page_name |-> page_name,
      page_file |-> file_path_of(file),
      column_name |-> column.name, section_name |-> section.name,
      report_view_name |-> section.reportViews[i].name,
      report_view_index |-> i - 1,
      duid |-> section.reportViews[i].duid,
      parent_duid |-> section.duid,
      caption |-> NormWs(section.reportViews[i].caption),
      report_path |-> Replace(section.reportViews[i].path, <<"\\/">>, <<"/">>),
      report_type |-> "report"]]

\* the records of the global filter views of one section
global_filters_of_section(file, page_name, dashboard_name, column, section) ==
  [i \in 1..Len(section.globalFilterViews) |->
     [dashboard_name |-> dashboard_name, page_name |-> page_name,
      page_file |-> file_path_of(file),
      column_name |-> column.name, section_name |-> section.name,
      filter_name |-> section.globalFilterViews[i].name,
      filter_index |-> i - 1,
      filter_path |-> section.globalFilterViews[i].path,
      duid |-> section.globalFilterViews[i].duid,
      parent_duid |-> section.duid,
      caption |-> NormWs(section.globalFilterViews[i].caption)]]

\* an enumeration of the action-link views that counts the views with a link only
action_link_index_among_links(views, i) ==
  Cardinality({j \in 1..(i-1) : views[j].link # << >>})

\* enumerate(findall(section, 'sawd:actionLinkView'))
action_link_index(views, i) == i - 1

\* the records of the action-link views of one section: a view without
\* sawd:actionLink child has none
action_links_of_section(file, page_name, dashboard_name, column, section) ==
  LET views == section.actionLinkViews
      linked == SelectSeq([i \in 1..Len(views) |-> i], LAMBDA i : views[i].link # << >>)
  IN  [k \in 1..Len(linked) |->
         [dashboard_name |-> dashboard_name, page_name |-> page_name,
          page_file |-> file_path_of(file),
          column_name |-> column.name, section_name |-> section.name,
          action_link_name |-> views[linked[k]].name,
          action_link_index |-> action_link_index(views, linked[k]),
          duid |-> views[linked[k]].duid,
          parent_duid |-> section.duid,
          caption |-> NormWs(views[linked[k]].link[1].caption),
          navigation_path |-> NormWs(views[linked[k]].link[1].value)]]

\* the section records of one column
section_infos(page_name, dashboard_name, column) ==
  [i \in 1..Len(column.sections) |->
     [dashboard_name |-> dashboard_name, page_name |-> page_name,
      column_name |-> column.name,
      section_name |-> column.sections[i].name,
      section_index |-> i - 1,
      duid |-> column.sections[i].duid,
      parent_duid |-> column.duid]]

\* parse_dashboard_page: the page record and the records of the columns, the
\* sections, the report views, the global filters and the action links of a
\* well-formed page document, column by column and section by section
parse_dashboard_page(file, page_name, dashboard_name) ==
  LET columns == file.doc.dashboardColumns
      per_section(records(_, _)) ==
        Flatten([c \in 1..Len(columns) |->
                   Flatten([k \in 1..Len(columns[c].sections) |->
                              records(columns[c], columns[c].sections[k])])])
  IN  [page_info |-> [dashboard_name |-> dashboard_name, page_name |-> page_name,
                      page_file |-> file_path_of(file),
                      duid |-> file.doc.duid],
       columns |->
         [c \in 1..Len(columns) |->
            [dashboard_name |-> dashboard_name, page_name |-> page_name,
             column_name |-> columns[c].name,
             column_index |-> c - 1,
             duid |-> columns[c].duid,
             parent_duid |-> file.doc.duid]],
       sections |->
         Flatten([c \in 1..Len(columns) |->
                    section_infos(page_name, dashboard_name, columns[c])]),
       report_views |->
         per_section(LAMBDA column, section :
           report_views_of_section(file, page_name, dashboard_name, column, section)),
       global_filters |->
         per_section(LAMBDA column, section :
           global_filters_of_section(file, page_name, dashboard_name, column, section)),
       action_links |->
         per_section(LAMBDA column, section :
           action_links_of_section(file, page_name, dashboard_name, column, section))]

\* the files of one directory, in listing order
files_in(files, dir) == SelectSeq(files, LAMBDA f : f.dir = dir)

named(files, fname) == SelectSeq(files, LAMBDA f : f.fname = fname)

EmptyParts == [dashboards |-> << >>, page_refs |-> << >>, pages |-> << >>,
               columns |-> << >>, sections |-> << >>,
               report_views |-> << >>, global_filters |-> << >>, action_links |-> << >>]

add_page(parts, page) ==
  [parts EXCEPT !.pages = Append(@, page.page_info),
                !.columns = @ \o page.columns,
                !.sections = @ \o page.sections,
                !.report_views = @ \o page.report_views,
                !.global_filters = @ \o page.global_filters,
                !.action_links = @ \o page.action_links]

\* the pages the layout document refers to, parsed in the order of its refs
RECURSIVE parse_referenced_pages(_, _, _, _)
parse_referenced_pages(listing, page_refs, dashboard_name, parts) ==
  IF page_refs = << >> THEN parts
  ELSE LET page_path == Head(page_refs)
           page_filename == Replace(Lower(page_path), <<SP>>, <<"+">>)
           with_ext == named(listing, page_filename \o <<".xml">>)
           bare == named(listing, page_filename)
           found == IF with_ext # << >> THEN with_ext ELSE bare
       IN  parse_referenced_pages(listing, Tail(page_refs), dashboard_name,
             IF found # << >> /\ found[1].ok
             THEN add_page(parts, parse_dashboard_page(found[1], page_path, dashboard_name))
             ELSE parts)

\* the scan for page files the layout does not refer to
RECURSIVE parse_standalone_pages(_, _, _)
parse_standalone_pages(listing, dashboard_name, parts) ==
  IF listing = << >> THEN parts
  ELSE LET file == Head(listing)
           page_name == Replace(splitext(file.fname), <<"+">>, <<SP>>)
           is_page == EndsWith(Lower(file.fname), ".xml") /\ file.fname # LayoutName
           seen == \E i \in 1..Len(parts.pages) : parts.pages[i].page_name = page_name
       IN  parse_standalone_pages(Tail(listing), dashboard_name,
             IF is_page /\ ~seen /\ file.ok
             THEN add_page(parts, parse_dashboard_page(file, page_name, dashboard_name))
             ELSE parts)

process_dashboard_directory(files, dir) ==
  LET listing == files_in(files, dir)
      dashboard_name == dir
      layout_file == IF named(listing, LayoutName) # << >> THEN named(listing, LayoutName)
                     ELSE named(listing, LayoutNameBare)
      from_layout ==
        IF layout_file # << >> /\ layout_file[1].ok
        THEN parse_referenced_pages(listing, layout_file[1].doc.page_refs, dashboard_name,
               [EmptyParts EXCEPT
                  !.dashboards = <<[dashboard_name |-> dashboard_name,
                                    dashboard_file |-> file_path_of(layout_file[1])]>>,
                  !.page_refs = [i \in 1..Len(layout_file[1].doc.page_refs) |->
                                   [dashboard_name |-> dashboard_name,
                                    page_path |-> layout_file[1].doc.page_refs[i]]]])
        ELSE EmptyParts
  IN  parse_standalone_pages(listing, dashboard_name, from_layout)

\* a directory is a dashboard when its listing has a layout file name
has_dashboard(files, dir) ==
  named(files_in(files, dir), LayoutName) # << >>
    \/ named(files_in(files, dir), LayoutNameBare) # << >>

RECURSIVE walk_dashboards(_, _, _)
walk_dashboards(files, dirs, acc) ==
  IF dirs = << >> THEN acc
  ELSE walk_dashboards(files, Tail(dirs),
         IF has_dashboard(files, Head(dirs))
         THEN LET parts == process_dashboard_directory(files, Head(dirs))
              IN  [dashboards |-> acc.dashboards \o parts.dashboards,
                   page_refs |-> acc.page_refs \o parts.page_refs,
                   pages |-> acc.pages \o parts.pages,
                   columns |-> acc.columns \o parts.columns,
                   sections |-> acc.sections \o parts.sections,
                   report_views |-> acc.report_views \o parts.report_views,
                   global_filters |-> acc.global_filters \o parts.global_filters,
                   action_links |-> acc.action_links \o parts.action_links]
         ELSE acc)

process_all_dashboards_recursively(files) == 
  walk_dashboards(files, Dedupe([i \in 1..Len(files) |-> files[i].dir]), EmptyParts)

-----------------------------------------------------------------------------
(* Fallback synthesis *)

\* os.path.dirname of a path without leading slash: '' when it has no slash
dirname(path) ==
  LET parts == SplitOn(path, "/")
  IN  StrJoin(<<"/">>, SubSeq(parts, 1, Len(parts)-1))

\* the catalog path of a file: from its 'shared' segment on, '+' as blank,
\* without the .xml extension
file_path_to_catalog_path(file_path) ==
  LET path_parts == SplitOn(file_path, "/")
      shared == {i \in 1..Len(path_parts) : Lower(path_parts[i]) = <<"shared">>}
      from == IF shared # {} THEN CHOOSE i \in shared : \A j \in shared : i <= j ELSE 1
      catalog_path == <<"/">> \o Replace(StrJoin(<<"/">>, SubSeq(path_parts, from, Len(path_parts))),
                                         <<"+">>, <<SP>>)
  IN  IF file_path = EmptyStr THEN EmptyStr
      ELSE IF EndsWith(catalog_path, ".xml")
      THEN SubSeq(catalog_path, 1, Len(catalog_path)-1) ELSE catalog_path

_synthesize_dashboard_report_views_from_reports(reports) ==
  [i \in 1..Len(reports) |->
     LET info == reports[i].val
         page_name == Unquote(Replace(basename(info.file_path), <<"+">>, <<SP>>))
         catalog_full == file_path_to_catalog_path(info.file_path)
     IN  [dashboard_name |->
            IF Contains(StripSlash(catalog_full), <<"/">>)
            THEN dirname(StripSlash(catalog_full)) ELSE StripSlash(catalog_full),
          page_name |-> page_name,
          section_name |-> EmptyStr, column_name |-> EmptyStr, duid |-> EmptyStr,
          page_file |-> info.file_path,
          report_view_name |-> EmptyStr,
          caption |-> page_name,
          report_path |-> reports[i].key,
          report_type |-> "report"]]

_synthesize_global_filters_from_prompts(prompts) ==
  [i \in 1..Len(prompts) |->
     LET prompt_path == prompts[i].key
     IN  [dashboard_name |-> dirname(StripSlash(prompt_path)),
          page_name |-> basename(prompt_path),
          section_name |-> EmptyStr, column_name |-> EmptyStr, duid |-> EmptyStr,
          page_file |-> prompts[i].val.file_path,
          filter_name |-> basename(prompt_path),
          filter_index |-> 0,
          caption |-> basename(prompt_path),
          filter_path |-> prompt_path]]

\* a main without the fallback: only the references of the dashboards
use_rvs_of_dashboards_only(agg_dashboard_report_views, reports) == agg_dashboard_report_views

\* the report-view references main hands to the table builders
use_rvs_of(agg_dashboard_report_views, reports) ==
  LET synthesized_rvs == _synthesize_dashboard_report_views_from_reports(reports)
  IN  IF Len(agg_dashboard_report_views) = 0 THEN synthesized_rvs
      ELSE agg_dashboard_report_views \o
           SelectSeq(synthesized_rvs,
                     LAMBDA rv : \A i \in 1..Len(agg_dashboard_report_views) :
                        Lower(agg_dashboard_report_views[i].report_path) # Lower(rv.report_path))

\* the global-filter references main hands to the table builders
use_gfs_of(agg_dashboard_report_views, agg_dashboard_global_filters, prompts) ==
  LET synthesized_gfs == _synthesize_global_filters_from_prompts(prompts)
  IN  IF Len(agg_dashboard_report_views) = 0 THEN synthesized_gfs
      ELSE agg_dashboard_global_filters \o
           SelectSeq(synthesized_gfs,
                     LAMBDA gf : \A i \in 1..Len(agg_dashboard_global_filters) :
                        Lower(agg_dashboard_global_filters[i].filter_path) # Lower(gf.filter_path))

\* the action links main hands to the table builders
use_als_of(agg_dashboard_report_views, agg_dashboard_action_links) ==
  IF Len(agg_dashboard_report_views) = 0 THEN << >> ELSE agg_dashboard_action_links

-----------------------------------------------------------------------------
(* Catalog Resolver: Dashboards and Windows *)

\* the row of Dashboards.csv of one reference
dashboard_row(ref, object_type, object_path) ==
  [WorksheetName |-> ref.page_name,
   DashboardName |-> Unquote(basename(Replace(ref.dashboard_name, <<"+">>, <<SP>>))),
   ObjectName |-> ref.caption,
   ObjectType |-> object_type,
   ObjectPath |-> object_path,
   WorksheetPath |-> file_path_to_catalog_path(ref.page_file)]

\* a table without the rows of the global filters and the action links
create_dashboard_csv_data_reports_only(agg_dashboard_report_views, agg_dashboard_global_filters, agg_dashboard_action_links) ==
  [i \in 1..Len(agg_dashboard_report_views) |->
     dashboard_row(agg_dashboard_report_views[i], "Reports",
                   agg_dashboard_report_views[i].report_path)]

create_dashboard_csv_data(agg_dashboard_report_views, agg_dashboard_global_filters, agg_dashboard_action_links) ==
  [i \in 1..Len(agg_dashboard_report_views) |->
     dashboard_row(agg_dashboard_report_views[i], "Reports",
                   agg_dashboard_report_views[i].report_path)]
  \o
  [i \in 1..Len(agg_dashboard_global_filters) |->
     dashboard_row(agg_dashboard_global_filters[i], "Prompts",
                   agg_dashboard_global_filters[i].filter_path)]
  \o
  [i \in 1..Len(agg_dashboard_action_links) |->
     dashboard_row(agg_dashboard_action_links[i], "Links",
                   agg_dashboard_action_links[i].navigation_path)]

\* the row of Windows.csv of the reference at position idx of its list
window_row(ref, window_class, idx, height) ==
  [WorksheetName |-> ref.page_name,
   DashboardName |-> Unquote(basename(Replace(ref.dashboard_name, <<"+">>, <<SP>>))),
   WindowName |-> ref.caption,
   WindowClass |-> window_class,
   SectionName |-> ref.section_name,
   ColumnName |-> ref.column_name,
   YPosition |-> idx * height,
   WorksheetPath |-> file_path_to_catalog_path(ref.page_file)]

create_windows_csv_data(agg_dashboard_report_views, agg_dashboard_global_filters, agg_dashboard_action_links) ==
  [i \in 1..Len(agg_dashboard_report_views) |->
     window_row(agg_dashboard_report_views[i], "Reports", i - 1, 400)]
  \o
  [i \in 1..Len(agg_dashboard_global_filters) |->
     window_row(agg_dashboard_global_filters[i], "Prompts", i - 1, 100)]
  \o
  [i \in 1..Len(agg_dashboard_action_links) |->
     window_row(agg_dashboard_action_links[i], "Links", i - 1, 50)]

-----------------------------------------------------------------------------
(* Documents of the corpus *)

\* view names
P1 == <<"pivotTableView", "!", "1">>
P2 == <<"pivotTableView", "!", "2">>
T1 == <<"tableView", "!", "1">>

View(name, xtype, cells) ==
  [name |-> name, xtype |-> xtype, cells |-> cells,
   edgeLayers |-> IF xtype = "tableView"
                  THEN <<[columnID |-> "saw_1", aggRule |-> "max"]>> ELSE << >>,
   measures |-> IF xtype = "pivotTableView"
                THEN <<[columnID |-> "saw_1", aggRule |-> "sum"]>> ELSE << >>,
   display_type |-> IF xtype = "dvtchart" THEN <<"bar">> ELSE EmptyStr,
   display_subtype |-> IF xtype = "dvtchart" THEN <<"stacked">> ELSE EmptyStr,
   categories |-> IF xtype = "dvtchart" THEN <<"saw_0">> ELSE << >>,
   chartMeasures |-> IF xtype = "dvtchart"
                     THEN <<[columnID |-> "saw_1", measureType |-> "y", riserType |-> "bar"]>>
                     ELSE << >>]

ViewElems ==
  { View(<<"compoundView", "!", "1">>, "compoundView", <<P1, P2, T1>>),
    View(<<"compoundView", "!", "2">>, "compoundView", <<T1>>),
    View(P1, "pivotTableView", << >>),
    View(P2, "pivotTableView", << >>),
    View(T1, "tableView", << >>) }

Column(id, expr_type, expr, table_heading, column_heading) ==
  [columnID |-> id, xtype |-> "regularColumn", expr_type |-> expr_type, expr |-> expr,
   table_heading |-> table_heading, column_heading |-> column_heading]

ColTC == Column("saw_0", "sqlExpression", Pair(<<"T">>, <<"C">>), EmptyStr, EmptyStr)
ColVolume == Column("saw_2", "sqlExpression", Pair(<<"Volume">>, <<"C">>), EmptyStr, EmptyStr)

ColumnElems ==
  { ColTC, ColVolume,
    Column("saw_1", "sqlExpression", Pair(<<"Sales">>, <<"C">>), EmptyStr, EmptyStr),
    \* the same id again, on another expression
    Column("saw_1", "sqlExpression", Pair(<<"T">>, <<"D">>), EmptyStr, EmptyStr),
    \* a denylisted table in another case, blanks inside the quotes, next to a
    \* table that is not denylisted
    Column("saw_3", "sqlExpression",
           Pair(<<"T">>, <<"C">>) \o <<SP, "+", SP>> \o Pair(<<SP, "VOLUME", SP>>, <<"C">>),
           EmptyStr, EmptyStr),
    \* the banned union
    Column("saw_4", "sqlExpression",
           Pair(<<"Scheduled Pick Date">>, <<"C">>) \o <<SP>>
             \o Pair(<<"Transaction Details">>, <<"C">>) \o <<SP>>
             \o Pair(<<"As Of Date">>, <<"C">>), EmptyStr, EmptyStr),
    \* a derived column that names its sources by id; the table comes from
    \* the heading
    Column("saw_5", "sqlExpression", <<"(", "saw_1", "+", "saw_01", "+", "saw_0", ")">>,
           <<"T">>, <<"C">>),
    \* a denylisted table that comes from the heading
    Column("saw_6", "sqlExpression", <<"x">>, <<"Key Reporting Fields">>, <<"C">>),
    Column("saw_7", "sqlExpression",
           <<"VALUEOF", "(", "NQ_SESSION", ".", "SAW_DASHBOARD", ")">>, EmptyStr, EmptyStr),
    \* nothing to name a table by
    Column("saw_8", "sqlExpression", <<"x">>, EmptyStr, EmptyStr),
    Column("saw_9", "sqlExpression", <<"x">>, <<SumDiff>>, <<"C">>),
    Column("saw_10", "sqlExpression", <<"x">>, <<"IFERROR", "(", "x", ")">>, <<"C">>),
    Column("saw_11", "sqlExpression", <<"x">>, <<"T">>, <<SP, BiServerVariable>>) }

\* a well-formed XML document: each parser reads the elements it looks for
Doc(columns, views, currentView, columnOrders, filter) ==
  [root_type |-> "", subjectArea |-> "SA", columns |-> columns, views |-> views,
   currentView |-> currentView, columnOrders |-> columnOrders, filter |-> filter,
   page_refs |-> << >>, duid |-> EmptyStr, dashboardColumns |-> << >>, prompts |-> << >>]

EmptyDoc == Doc(<< >>, << >>, "", << >>, << >>)

Sales == <<"shared", "/", "sales">>

File(dir, fname, ok, doc) == [dir |-> dir, fname |-> fname, ok |-> ok, doc |-> doc]

\* a report with a column, a view, a filter and a sort order
FullReport ==
  Doc(<<ColTC>>, <<View(T1, "tableView", << >>)>>, "",
      <<[columnID |-> "saw_0", direction |-> "ascending"]>>, <<At(0, LeafA)>>)

\* a section element
Section(name, duid, reportViews, globalFilterViews, actionLinkViews) ==
  [name |-> name, duid |-> duid, reportViews |-> reportViews,
   globalFilterViews |-> globalFilterViews, actionLinkViews |-> actionLinkViews]

\* a page of one column of one section, with a report view and a global
\* filter view
PageDoc ==
  [EmptyDoc EXCEPT
     !.duid = <<"p">>,
     !.dashboardColumns =
       <<[name |-> <<"Column", SP, "1">>, duid |-> <<"c", "1">>,
          sections |->
            <<Section(<<"Section", SP, "1">>, <<"c", "1", "s", "1">>,
                <<[name |-> T1, duid |-> <<"c", "1", "s", "1", "rv", "1">>,
                   caption |-> <<"Report", SP, "1">>,
                   path |-> <<"/", "shared", "\\/", "sales", "\\/", "r1">>]>>,
                <<[name |-> <<"gf">>, duid |-> <<"c", "1", "s", "1", "gf", "1">>,
                   caption |-> <<"Prompt">>,
                   path |-> <<"/", "shared", "/", "sales", "/", "prompt", "1">>]>>,
                << >>)>>]>>]

\* what a section can hold: the number of its report views, the number of
\* its global filter views, and for each of its action-link views whether it
\* has a link
SectionShapes ==
  { [rv |-> 0, gf |-> 0, al |-> << >>],
    [rv |-> 0, gf |-> 1, al |-> <<TRUE>>],
    [rv |-> 2, gf |-> 1, al |-> <<FALSE, TRUE>>],
    [rv |-> 1, gf |-> 2, al |-> <<TRUE, TRUE>>] }

Digit == <<"1", "2", "3", "4", "5", "6", "7", "8", "9">>

\* the page document of the given columns, each a sequence of section shapes;
\* every element is named and identified by its position
PageOf(columns) ==
  [EmptyDoc EXCEPT
     !.duid = <<"p">>,
     !.dashboardColumns =
       [c \in 1..Len(columns) |->
          [name |-> <<"Column", SP, Digit[c]>>, duid |-> <<"c", Digit[c]>>,
           sections |->
             [k \in 1..Len(columns[c]) |->
                LET duid == <<"c", Digit[c], "s", Digit[k]>>
                IN  Section(<<"Section", SP, Digit[k]>>, duid,
                      [i \in 1..columns[c][k].rv |->
                         [name |-> <<"rv", Digit[i]>>, duid |-> duid \o <<"rv", Digit[i]>>,
                          caption |-> <<"Report", SP, Digit[i]>>,
                          path |-> <<"/", "shared", "/", "sales", "/", "r1">>]],
                      [i \in 1..columns[c][k].gf |->
                         [name |-> <<"gf", Digit[i]>>, duid |-> duid \o <<"gf", Digit[i]>>,
                          caption |-> <<"Prompt", SP, Digit[i]>>,
                          path |-> <<"/", "shared", "/", "sales", "/", "prompt", "1">>]],
                      [i \in 1..Len(columns[c][k].al) |->
                         [name |-> <<"al", Digit[i]>>, duid |-> duid \o <<"al", Digit[i]>>,
                          link |-> IF columns[c][k].al[i]
                                   THEN <<[caption |-> <<"Link", SP, Digit[i]>>,
                                           value |-> <<"/", "shared", "/", "sales", "/", "r2">>]>>
                                   ELSE << >>]])]]]]

PromptDoc ==
  [EmptyDoc EXCEPT
     !.root_type = "globalFilterPrompt",
     !.prompts = <<[columnID |-> "", op |-> "in", defaults |-> << >>,
                    formula |-> [present |-> TRUE, kids |-> <<Pair(<<"T">>, <<"C">>)>>]]>>]

\* prompt elements with a formula, with a formula element without children
\* and without formula element
PromptElems ==
  { PromptDoc.prompts[1],
    [columnID |-> "saw_1", op |-> "in", defaults |-> << >>,
     formula |-> [present |-> TRUE, kids |-> << >>]],
    [columnID |-> "saw_2", op |-> "in", defaults |-> << >>,
     formula |-> [present |-> FALSE, kids |-> << >>]] }

\* what a file name can hold: nothing (<< >>), or one of the listed contents
Variants(fname, docs) ==
  { << >> } \cup { <<File(Sales, fname, TRUE, d)>> : d \in docs }
            \cup { <<File(Sales, fname, FALSE, EmptyDoc)>> }

\* corpora of one directory with a layout, a page, two reports (the second
\* with a column on the denylist as its only column) and a prompt,
\* each absent, well-formed or not well-formed
DashboardCorpora ==
  { layout \o page \o r1 \o r2 \o prompt \o atr :
      layout \in Variants(LayoutName, {[EmptyDoc EXCEPT !.page_refs = << <<"page", SP, "1">> >>]}),
      page \in Variants(<<"page", "+", "1", ".xml">>, {PageDoc}),
      r1 \in Variants(<<"r1", ".xml">>, {FullReport, EmptyDoc}),
      r2 \in Variants(<<"r2", ".xml">>, {Doc(<<ColVolume>>, << >>, "", << >>, << >>)}),
      prompt \in Variants(<<"prompt", "1", ".xml">>, {PromptDoc}),
      atr \in { << >>, <<File(Sales, <<"r1", ".atr">>, TRUE, EmptyDoc)>> } }

\* corpora of a dashboard whose page names a report by a path in another
\* case, with escaped slashes, under a folder that does not exist, or that no
\* report has, with a report r1 in the directory of the dashboard, in another
\* directory, in both or in none
ReferenceCorpora ==
  { other \o <<File(Sales, LayoutName, TRUE, [EmptyDoc EXCEPT !.page_refs = << <<"page", SP, "1">> >>]),
               File(Sales, <<"page", "+", "1", ".xml">>, TRUE,
                    [PageDoc EXCEPT !.dashboardColumns[1].sections[1].reportViews[1].path = path,
                                    !.dashboardColumns[1].sections[1].globalFilterViews = << >>])>> \o r1 :
      path \in { <<"/", "SHARED", "/", "sales", "/", "R1">>,
                 <<"/", "shared", "%2f", "sales", "%2f", "r1">>,
                 <<"/", "gone", "/", "r1">>,
                 <<"/", "shared", "/", "sales", "/", "r9">> },
      other \in { << >>,
                  <<File(<<"shared", "/", "other">>, <<"r1", ".xml">>, TRUE,
                         \* sorted by a column it does not have
                         Doc(<<ColVolume, ColTC>>, <<View(P1, "pivotTableView", << >>)>>, "",
                             <<[columnID |-> "saw_9", direction |-> "ascending"]>>,
                             <<At(0, LeafIn)>>))>> },
      r1 \in { << >>, <<File(Sales, <<"r1", ".xml">>, TRUE, FullReport)>> } }

\* and corpora of one report that varies in its views or in its columns
Corpora ==
  DashboardCorpora \cup ReferenceCorpora
    \cup { <<File(Sales, <<"r1", ".xml">>, TRUE, Doc(<<ColTC>>, views, cur, << >>, << >>))>> :
             views \in SeqsUpTo(ViewElems, MaxViews), cur \in {"", "0", "2", "x"} }
    \cup { <<File(Sales, <<"r1", ".xml">>, TRUE,
                  Doc(columns, <<View(T1, "tableView", << >>),
                                 View(<<"dvtchart", "!", "1">>, "dvtchart", << >>)>>,
                      "", << >>, << >>))>> :
             columns \in SeqsUpTo(ColumnElems, MaxColumns) }
    \cup { <<File(Sales, <<"prompt", "1", ".xml">>, TRUE, [PromptDoc EXCEPT !.prompts = elems])>> :
             elems \in SeqsUpTo(PromptElems, MaxPrompts) }
    \* a report of one column: without expression type, of another type than
    \* the plain one, with a CASE construct, with parentheses, and with the
    \* letters of CASE inside a column name
    \cup { <<File(Sales, <<"r1", ".xml">>, TRUE,
                  Doc(<<Column("saw_0", expr_type, expr, EmptyStr, EmptyStr)>>,
                      <<View(T1, "tableView", << >>)>>, "", << >>, << >>))>> :
             expr_type \in {"", "sqlExpression", "columnExpression"},
             expr \in { Pair(<<"T">>, <<"C">>), <<"(">> \o Pair(<<"T">>, <<"C">>) \o <<")">>,
                        <<"case", SP, "when", SP>> \o Pair(<<"T">>, <<"C">>) \o <<SP, "end">>,
                        Pair(<<"T">>, <<"Showcase">>) } }
    \* a dashboard whose page names, by one of its views, a report of up to two
    \* views that record the rule sum, count, max or no rule for the column saw_1
    \cup { <<File(Sales, LayoutName, TRUE, [EmptyDoc EXCEPT !.page_refs = << <<"page", SP, "1">> >>]),
             File(Sales, <<"page", "+", "1", ".xml">>, TRUE,
                  [PageDoc EXCEPT !.dashboardColumns[1].sections[1].reportViews[1].name = name,
                                  !.dashboardColumns[1].sections[1].globalFilterViews = << >>]),
             File(Sales, <<"r1", ".xml">>, TRUE,
                  Doc(<<Column("saw_1", "sqlExpression", Pair(<<"T">>, <<"D">>), EmptyStr, EmptyStr)>>,
                      views, "", << >>, << >>))>> :
             name \in {P1, P2, T1},
             views \in SeqsUpTo({ View(P1, "pivotTableView", << >>), View(T1, "tableView", << >>),
                                  [View(P2, "pivotTableView", << >>) EXCEPT !.measures = << >>],
                                  [View(P2, "pivotTableView", << >>) EXCEPT
                                     !.measures = <<[columnID |-> "saw_1", aggRule |-> "count"]>>] },
                                2) }
    \* a report of up to two charts whose names differ in the suffix or not at
    \* all and whose display types differ or not, under a compound view or not
    \cup { <<File(Sales, <<"r1", ".xml">>, TRUE, Doc(<<ColTC>>, compound \o charts, "", << >>, << >>))>> :
             compound \in { << >>, <<View(<<"compoundView", "!", "1">>, "compoundView",
                                          << <<"dvtchart", "!", "2">> >>)>> },
             charts \in SeqsUpTo({ View(<<"dvtchart", "!", "1">>, "dvtchart", << >>),
                                   View(<<"dvtchart", "!", "2">>, "dvtchart", << >>),
                                   [View(<<"dvtchart", "!", "2">>, "dvtchart", << >>) EXCEPT
                                      !.display_type = <<"line">>, !.display_subtype = EmptyStr] },
                                 2) }
    \* a dashboard whose layout names the page overview, in the file
    \* overview.xml, with a report next to it or in another directory
    \cup { <<File(Sales, LayoutName, TRUE, [EmptyDoc EXCEPT !.page_refs = << <<"overview">> >>]),
             File(Sales, <<"overview", ".xml">>, TRUE, PageDoc)>> \o r1 :
             r1 \in { << >>, <<File(Sales, <<"r1", ".xml">>, TRUE, FullReport)>>,
                      <<File(<<"shared", "/", "other">>, <<"r1", ".xml">>, TRUE, FullReport)>> } }
    \* a dashboard whose page names a prompt by its catalog path, in another
    \* case, with %2f escapes, or with '+' for the blank, and the prompt
    \* document prompt1.xml or my+prompt.xml
    \cup { <<File(Sales, LayoutName, TRUE, [EmptyDoc EXCEPT !.page_refs = << <<"page", SP, "1">> >>]),
             File(Sales, <<"page", "+", "1", ".xml">>, TRUE,
                  [PageDoc EXCEPT !.dashboardColumns[1].sections[1].globalFilterViews[1].path = path]),
             File(Sales, fname, TRUE, PromptDoc)>> :
             path \in { <<"/", "SHARED", "/", "sales", "/", "prompt", "1">>,
                        <<"/", "shared", "%2f", "sales", "%2f", "prompt", "1">>,
                        <<"/", "shared", "/", "sales", "/", "my", "+", "prompt">>,
                        <<"/", "shared", "/", "sales", "/", "my", SP, "prompt">> },
             fname \in { <<"prompt", "1", ".xml">>, <<"my", "+", "prompt", ".xml">> } }
    \* a dashboard whose page has up to MaxPageColumns columns of up to
    \* MaxSections sections each; the layout names the page as its file is
    \* named or with a capital letter
    \cup { <<File(Sales, LayoutName, TRUE, [EmptyDoc EXCEPT !.page_refs = <<page_path>>]),
             File(Sales, <<"page", "+", "1", ".xml">>, TRUE, PageOf(columns))>> :
             page_path \in {<<"page", SP, "1">>, <<"Page", SP, "1">>},
             columns \in SeqsUpTo(SeqsUpTo(SectionShapes, MaxSections), MaxPageColumns) }

-----------------------------------------------------------------------------
(* main *)

InitMain ==
  /\ FilterIdle
  /\ PlacementIdle
  \* an input root that is no directory holds no files
  /\ \/ input_xml_dir = TRUE /\ output_dir = TRUE /\ corpus \in Corpora
     \/ /\ input_xml_dir \in BOOLEAN /\ output_dir \in BOOLEAN
        /\ ~(input_xml_dir /\ output_dir)
        /\ corpus = << >>
  /\ rc = << >>
  /\ reports_map = << >> /\ prompts_map = << >> /\ agg = << >>
  /\ use_rvs = << >> /\ use_gfs = << >>
  /\ worksheet_rows = << >> /\ charttype_rows = << >> /\ filter_rows = << >>
  /\ mpc = "start"
  /\ previous = << >>
  /\ use_als = << >> /\ dashboard_rows = << >> /\ window_rows = << >>
  /\ opened = {}

\* ensure_dir(output_dir) raises when the output directory cannot be made:
\* the error escapes main and the handler of the script exits with 1
EnsureDirRaises ==
  /\ mpc = "start"
  /\ ~output_dir
  /\ mpc' = "exited"
  /\ rc' = <<1>>
  /\ UNCHANGED <<corpus, reports_map, prompts_map, agg, use_rvs, use_gfs, worksheet_rows,
                 charttype_rows, filter_rows, previous, opened, input_xml_dir,
                 output_dir>>
  /\ UNCHANGED <<use_als, dashboard_rows, window_rows>>
  /\ UNCHANGED filterVars
  /\ UNCHANGED placementVars

\* a main that ends on a missing source directory as on an escaped error
SourceDirectoryMissing_as_error ==
  /\ mpc = "start"
  /\ output_dir /\ ~input_xml_dir
  /\ mpc' = "exited"
  /\ rc' = <<1>>
  /\ UNCHANGED <<corpus, reports_map, prompts_map, agg, use_rvs, use_gfs, worksheet_rows,
                 charttype_rows, filter_rows, previous, opened, input_xml_dir,
                 output_dir>>
  /\ UNCHANGED <<use_als, dashboard_rows, window_rows>>
  /\ UNCHANGED filterVars
  /\ UNCHANGED placementVars

\* the source directory does not exist: main returns 2 before the first walk
SourceDirectoryMissing ==
  /\ mpc = "start"
  /\ output_dir /\ ~input_xml_dir
  /\ mpc' = "exited"
  /\ rc' = <<2>>
  /\ UNCHANGED <<corpus, reports_map, prompts_map, agg, use_rvs, use_gfs, worksheet_rows,
                 charttype_rows, filter_rows, previous, opened, input_xml_dir,
                 output_dir>>
  /\ UNCHANGED <<use_als, dashboard_rows, window_rows>>
  /\ UNCHANGED filterVars
  /\ UNCHANGED placementVars

\* Step 1: process all reports recursively
ProcessAllReports ==
  /\ mpc = "start"
  /\ output_dir /\ input_xml_dir
  /\ reports_map' = process_all_reports_recursively(corpus).reports_map
  /\ prompts_map' = process_all_reports_recursively(corpus).prompts_map
  /\ mpc' = "reports"
  \* every file the walk hands to parse_global_filter_prompt or parse_report
  /\ opened' = {file_path_of(corpus[i]) :
                  i \in {j \in 1..Len(corpus) :
                           /\ corpus[j].ok /\ is_scanned(corpus[j])
                           /\ \/ Contains(Lower(corpus[j].fname), <<"prompt">>)
                              \/ Contains(Lower(corpus[j].dir), <<"prompt">>)
                              \/ is_report_candidate(corpus[j])}}
  /\ UNCHANGED <<corpus, agg, use_rvs, use_gfs, worksheet_rows, charttype_rows,
                 filter_rows, previous>>
  /\ UNCHANGED <<input_xml_dir, output_dir, rc>>
  /\ UNCHANGED <<use_als, dashboard_rows, window_rows>>
  /\ UNCHANGED filterVars
  /\ UNCHANGED placementVars

\* Step 2: process the dashboards recursively
ProcessAllDashboards ==
  /\ mpc = "reports"
  /\ agg' = process_all_dashboards_recursively(corpus)
  /\ mpc' = "dashboards"
  \* the layout and page documents the dashboard extractor has parsed
  /\ opened' = {agg'.dashboards[i].dashboard_file : i \in 1..Len(agg'.dashboards)}
                  \cup {agg'.pages[i].page_file : i \in 1..Len(agg'.pages)}
  /\ UNCHANGED <<corpus, reports_map, prompts_map, use_rvs, use_gfs, worksheet_rows,
                 charttype_rows, filter_rows, previous>>
  /\ UNCHANGED <<input_xml_dir, output_dir, rc>>
  /\ UNCHANGED <<use_als, dashboard_rows, window_rows>>
  /\ UNCHANGED filterVars
  /\ UNCHANGED placementVars

\* Step 3: synthesize from the reports and prompts, or add the unreferenced ones
Synthesize ==
  /\ mpc = "dashboards"
  /\ use_rvs' = use_rvs_of(agg.report_views, reports_map)
  /\ use_gfs' = use_gfs_of(agg.report_views, agg.global_filters, prompts_map)
  /\ mpc' = "synthesized"
  /\ opened' = {}
  /\ UNCHANGED <<corpus, reports_map, prompts_map, agg, worksheet_rows, charttype_rows,
                 filter_rows, previous>>
  /\ UNCHANGED <<input_xml_dir, output_dir, rc>>
  /\ use_als' = use_als_of(agg.report_views, agg.action_links)
  /\ UNCHANGED <<dashboard_rows, window_rows>>
  /\ UNCHANGED filterVars
  /\ UNCHANGED placementVars

\* the Dashboards rows
CreateDashboards ==
  /\ mpc = "synthesized"
  /\ dashboard_rows' = create_dashboard_csv_data(use_rvs, use_gfs, use_als)
  /\ mpc' = "dashboard"
  /\ opened' = {}
  /\ UNCHANGED <<corpus, reports_map, prompts_map, agg, use_rvs, use_gfs, worksheet_rows,
                 charttype_rows, filter_rows, previous>>
  /\ UNCHANGED <<input_xml_dir, output_dir, rc>>
  /\ UNCHANGED <<use_als, window_rows>>
  /\ UNCHANGED filterVars
  /\ UNCHANGED placementVars

\* the Worksheets rows; set(col_refs) is iterated in the order of this
\* process, one of the orders of the column ids: the string hashes are seeded
\* anew for every process
CreateWorksheets ==
  /\ mpc = "dashboard"
  /\ \E hash_order \in {q \in SeqsUpTo(DOMAIN SawKey, Cardinality(DOMAIN SawKey)) :
                           /\ Len(q) = Cardinality(DOMAIN SawKey)
                           /\ \A x \in DOMAIN SawKey : InSeq(x, q)} :
       worksheet_rows' = create_worksheets_csv_data(use_rvs, reports_map, hash_order)
  /\ mpc' = "worksheets"
  /\ opened' = {}
  /\ UNCHANGED <<corpus, reports_map, prompts_map, agg, use_rvs, use_gfs, charttype_rows,
                 filter_rows, previous>>
  /\ UNCHANGED <<input_xml_dir, output_dir, rc>>
  /\ UNCHANGED <<use_als, dashboard_rows, window_rows>>
  /\ UNCHANGED filterVars
  /\ UNCHANGED placementVars

FilterErroneousTablenames ==
  /\ mpc = "worksheets"
  /\ worksheet_rows' = _filter_erroneous_tablenames_rows(worksheet_rows)
  /\ mpc' = "filtered"
  /\ opened' = {}
  /\ UNCHANGED <<corpus, reports_map, prompts_map, agg, use_rvs, use_gfs, charttype_rows,
                 filter_rows, previous>>
  /\ UNCHANGED <<input_xml_dir, output_dir, rc>>
  /\ UNCHANGED <<use_als, dashboard_rows, window_rows>>
  /\ UNCHANGED filterVars
  /\ UNCHANGED placementVars

NormalizeColumnnames ==
  /\ mpc = "filtered"
  /\ worksheet_rows' = _normalize_columnnames_biserver_variables(worksheet_rows)
  /\ mpc' = "normalized"
  /\ opened' = {}
  /\ UNCHANGED <<corpus, reports_map, prompts_map, agg, use_rvs, use_gfs, charttype_rows,
                 filter_rows, previous>>
  /\ UNCHANGED <<input_xml_dir, output_dir, rc>>
  /\ UNCHANGED <<use_als, dashboard_rows, window_rows>>
  /\ UNCHANGED filterVars
  /\ UNCHANGED placementVars

CreateChartType ==
  /\ mpc = "normalized"
  /\ charttype_rows' = create_charttype_csv_data(use_rvs, reports_map)
  /\ mpc' = "charttype"
  /\ opened' = {}
  /\ UNCHANGED <<corpus, reports_map, prompts_map, agg, use_rvs, use_gfs, worksheet_rows,
                 filter_rows, previous>>
  /\ UNCHANGED <<input_xml_dir, output_dir, rc>>
  /\ UNCHANGED <<use_als, dashboard_rows, window_rows>>
  /\ UNCHANGED filterVars
  /\ UNCHANGED placementVars

\* the Filters rows
CreateFilters ==
  /\ mpc = "charttype"
  /\ filter_rows' = create_filters_csv_data(use_rvs, use_gfs, reports_map, prompts_map)
  /\ mpc' = "filters"
  \* the file of every resolved report is parsed again for its filter
  /\ opened' = {lookup_report(reports_map, use_rvs[i].report_path)[1].file_path :
                  i \in {j \in 1..Len(use_rvs) :
                           lookup_report(reports_map, use_rvs[j].report_path) # << >>}}
  /\ UNCHANGED <<corpus, reports_map, prompts_map, agg, use_rvs, use_gfs, worksheet_rows,
                 charttype_rows, previous>>
  /\ UNCHANGED <<input_xml_dir, output_dir, rc>>
  /\ UNCHANGED <<use_als, dashboard_rows, window_rows>>
  /\ UNCHANGED filterVars
  /\ UNCHANGED placementVars

\* the Windows rows; the five tables are written and main returns 0
CreateWindows ==
  /\ mpc = "filters"
  /\ window_rows' = create_windows_csv_data(use_rvs, use_gfs, use_als)
  /\ mpc' = "done"
  /\ rc' = <<0>>
  /\ opened' = {}
  /\ UNCHANGED <<corpus, reports_map, prompts_map, agg, use_rvs, use_gfs, worksheet_rows,
                 charttype_rows, filter_rows, previous>>
  /\ UNCHANGED <<input_xml_dir, output_dir>>
  /\ UNCHANGED <<use_als, dashboard_rows>>
  /\ UNCHANGED filterVars
  /\ UNCHANGED placementVars

\* the pipeline is run once more over the unchanged corpus; the tables of the
\* first run are kept for comparison
RunAgain ==
  /\ mpc = "done"
  /\ previous = << >>
  /\ previous' = <<[worksheet_rows |-> worksheet_rows, charttype_rows |-> charttype_rows,
                    filter_rows |-> filter_rows]>>
  /\ reports_map' = << >> /\ prompts_map' = << >> /\ agg' = << >>
  /\ use_rvs' = << >> /\ use_gfs' = << >>
  /\ worksheet_rows' = << >> /\ charttype_rows' = << >> /\ filter_rows' = << >>
  /\ mpc' = "start"
  /\ opened' = {} /\ rc' = << >>
  /\ UNCHANGED <<corpus, input_xml_dir, output_dir>>
  /\ use_als' = << >> /\ dashboard_rows' = << >> /\ window_rows' = << >>
  /\ UNCHANGED filterVars
  /\ UNCHANGED placementVars

NextMain ==
  \/ EnsureDirRaises
  \/ SourceDirectoryMissing
  \/ ProcessAllReports
  \/ ProcessAllDashboards
  \/ Synthesize
  \/ CreateDashboards
  \/ CreateWorksheets
  \/ FilterErroneousTablenames
  \/ NormalizeColumnnames
  \/ CreateChartType
  \/ CreateFilters
  \/ CreateWindows
  \/ RunAgain

SpecMain == InitMain /\ [][NextMain]_vars

-----------------------------------------------------------------------------
(* Properties of the reports, the tables and the batch *)

\* the files of the corpus the walk registered as reports
ReportFiles == {i \in 1..Len(corpus) : registers_report(corpus[i])}

\* the walk over the reports has been made
Parsed == mpc \notin {"idle", "start", "exited"}

\* the walk over the dashboards has been made
Aggregated == mpc \notin {"idle", "start", "exited", "reports"}

ReportDataOf(i) == DictGet(reports_map, report_path_of(corpus[i]), << >>).report_data

NonCompound(views) == SelectSeq(views, LAMBDA v : v.xtype # "compoundView")

CompoundReports ==
  {i \in ReportFiles : \E v \in 1..Len(corpus[i].doc.views) :
                          corpus[i].doc.views[v].xtype = "compoundView"}

ChartRowsOf(i) ==
  SelectSeq(charttype_rows, LAMBDA r : r.ReportPath = report_path_of(corpus[i]))

\* the raw child order the first compound view record of a report carries
RecordedOrder(i) ==
  SelectSeq(ReportDataOf(i).view_rows,
            LAMBDA v : v.view_xsi_type = "compoundView")[1].compound_children_order_raw

\* C4: in the ChartType table of a report with a compound view there is one
\* row per non-compound view of the document, in document order, whatever the
\* current view is; when the currentView attribute is a number below the
\* length of the recorded raw child order, the rows whose ViewId is the raw
\* name at that zero-based place have IsCurrentView = Yes and every other row
\* of the report has No.
C4_CurrentViewByIndex ==
  mpc \in {"charttype", "filters", "done"} =>
    \A i \in CompoundReports :
      LET rows == ChartRowsOf(i)
          order == RecordedOrder(i)
          cur == corpus[i].doc.currentView
          shown == NonCompound(corpus[i].doc.views)
      IN  /\ Len(rows) = Len(shown)
          /\ \A k \in 1..Len(rows) : rows[k].ViewId = shown[k].name
          /\ (cur \in DOMAIN IntOf /\ IntOf[cur] < Len(order)) =>
               \A k \in 1..Len(rows) :
                 rows[k].IsCurrentView =
                   IF rows[k].ViewId = order[IntOf[cur] + 1] THEN "Yes" ELSE "No"

\* index 2 over [pivotTableView!1, pivotTableView!2, tableView!1] has marked
\* tableView!1 and no other row
C4_Witness ==
  /\ mpc = "done"
  /\ \E i \in CompoundReports :
       /\ corpus[i].doc.currentView = "2"
       /\ RecordedOrder(i) = <<P1, P2, T1>>
       /\ [k \in 1..Len(ChartRowsOf(i)) |->
             <<ChartRowsOf(i)[k].ViewId, ChartRowsOf(i)[k].IsCurrentView>>]
            = << <<P1, "No">>, <<P2, "No">>, <<T1, "Yes">> >>

\* C5 as stated: no two view records of a parsed report have the same
\* view_name_raw.
C5_RawNamesUnique ==
  Parsed =>
    \A i \in ReportFiles :
      \A a, b \in 1..Len(ReportDataOf(i).view_rows) :
        a # b => ReportDataOf(i).view_rows[a].view_name_raw
                   # ReportDataOf(i).view_rows[b].view_name_raw

\* C5: a parsed report has one view record per view element, in document
\* order, and the record carries the element's name as written; two view
\* elements with different names, also when they differ only by positional
\* suffix, have different raw names, and two with the same name have the same.
C5_RawNamesAsWritten ==
  Parsed =>
    \A i \in ReportFiles :
      LET rows == ReportDataOf(i).view_rows
          views == corpus[i].doc.views
      IN  /\ Len(rows) = Len(views)
          /\ \A a \in 1..Len(rows) : rows[a].view_name_raw = views[a].name
          /\ \A a, b \in 1..Len(rows) :
               (rows[a].view_name_raw = rows[b].view_name_raw) <=> (views[a].name = views[b].name)

\* two views that share the normalized name and differ by positional suffix
\* have been parsed into two records with different raw names
C5_Witness ==
  /\ Parsed
  /\ \E i \in ReportFiles :
       \E a, b \in 1..Len(ReportDataOf(i).view_rows) :
         /\ ReportDataOf(i).view_rows[a].view_name = ReportDataOf(i).view_rows[b].view_name
         /\ ReportDataOf(i).view_rows[a].view_name_raw = P1
         /\ ReportDataOf(i).view_rows[b].view_name_raw = P2

\* C6 as stated: no two column records of a parsed report have the same
\* column_id.
C6_ColumnIdsUnique ==
  Parsed =>
    \A i \in ReportFiles :
      \A a, b \in 1..Len(ReportDataOf(i).column_rows) :
        a # b => ReportDataOf(i).column_rows[a].column_id
                   # ReportDataOf(i).column_rows[b].column_id

\* C6: a parsed report has one column record per column element, in document
\* order, with the columnID attribute as written, so the ids of the records
\* are unique exactly when those of the document are; col_map maps an id to
\* the last column record that carries it.
C6_ColumnIdsAsWritten ==
  Parsed =>
    \A i \in ReportFiles :
      LET rows == ReportDataOf(i).column_rows
          columns == corpus[i].doc.columns
      IN  /\ Len(rows) = Len(columns)
          /\ \A a \in 1..Len(rows) : rows[a].column_id = columns[a].columnID
          /\ \A a \in 1..Len(rows) :
               DictGet(col_map(rows), rows[a].column_id, << >>)
                 = rows[CHOOSE b \in 1..Len(rows) :
                          /\ rows[b].column_id = rows[a].column_id
                          /\ \A c \in (b+1)..Len(rows) : rows[c].column_id # rows[a].column_id]

\* two columns of one report carry the same id and col_map holds the later
C6_Witness ==
  /\ Parsed
  /\ \E i \in ReportFiles :
       LET rows == ReportDataOf(i).column_rows
       IN  /\ Len(rows) = 2
           /\ rows[1].column_id = rows[2].column_id
           /\ rows[1] # rows[2]
           /\ DictGet(col_map(rows), rows[1].column_id, << >>) = rows[2]

\* the Worksheets rows have been through both post-processing steps
FinalWorksheets == mpc \in {"normalized", "charttype", "filters", "done"}

\* C7: no row of the final Worksheets table has, among the table names its
\* TableNames joins with '|', one that is on the denylist when blanks around
\* it are dropped and case is ignored, and no row has a TableNames that is
\* the banned union when case is ignored.
C7_NoBannedTables ==
  FinalWorksheets =>
    \A k \in 1..Len(worksheet_rows) :
      LET tokens == SplitOn(worksheet_rows[k].TableNames, "|")
      IN  /\ \A t \in 1..Len(tokens) : Strip(Lower(tokens[t])) \notin banned_tables
          /\ Strip(Lower(worksheet_rows[k].TableNames)) \notin banned_unions

\* a report with a column on a denylisted table, written in another case, and
\* a column that is kept: the table has rows, none for the denylisted column
C7_Witness ==
  /\ mpc = "done"
  /\ \E i \in ReportFiles :
       /\ \E c \in 1..Len(corpus[i].doc.columns) :
            /\ Contains(corpus[i].doc.columns[c].expr, <<"VOLUME">>)
            /\ \A k \in 1..Len(worksheet_rows) :
                 worksheet_rows[k].ColumnId # corpus[i].doc.columns[c].columnID
       /\ \E k \in 1..Len(worksheet_rows) :
            worksheet_rows[k].ReportPath = report_path_of(corpus[i])

\* the corpus has no layout document and the walk registered a report
FallbackCase ==
  /\ \A i \in 1..Len(corpus) : corpus[i].fname \notin {LayoutName, LayoutNameBare}
  /\ ReportFiles # {}

\* C8 as stated: in a corpus with no layout document and at least one report
\* document, Worksheets, ChartType and Filters are each non-empty after the run.
C8_FallbackOutputsNonEmpty ==
  (mpc = "done" /\ FallbackCase) =>
    worksheet_rows # << >> /\ charttype_rows # << >> /\ filter_rows # << >>

\* C8: in a corpus with no layout document and at least one report document
\* the tables are built from one synthesized report-view record per registered
\* report: every Worksheets and ChartType row carries the path and the file
\* name of a registered report, every Filters row that of a registered report
\* or prompt.  A table has rows only for what the reports hold: ChartType is
\* non-empty exactly when some registered report has a non-compound view,
\* Filters exactly when some registered report has a filter leaf that renders
\* or a column order, or a prompt was registered, and every Worksheets row
\* stems from a column of a registered report and has a non-blank TableNames.
C8_FallbackOutputsFromReports ==
  (mpc = "done" /\ FallbackCase) =>
    /\ Len(use_rvs) = Cardinality(ReportFiles)
    /\ \A i \in ReportFiles :
         \E k \in 1..Len(use_rvs) :
           /\ use_rvs[k].report_path = report_path_of(corpus[i])
           /\ use_rvs[k].page_name = Unquote(Replace(corpus[i].fname, <<"+">>, <<SP>>))
           /\ use_rvs[k].report_view_name = EmptyStr
    /\ \A r \in 1..Len(worksheet_rows) :
         \E i \in ReportFiles :
           /\ worksheet_rows[r].ReportPath = report_path_of(corpus[i])
           /\ worksheet_rows[r].WorksheetName = Unquote(Replace(corpus[i].fname, <<"+">>, <<SP>>))
           /\ \E c \in 1..Len(corpus[i].doc.columns) :
                corpus[i].doc.columns[c].columnID = worksheet_rows[r].ColumnId
           /\ Strip(worksheet_rows[r].TableNames) # EmptyStr
    /\ \A r \in 1..Len(charttype_rows) :
         \E i \in ReportFiles :
           /\ charttype_rows[r].ReportPath = report_path_of(corpus[i])
           /\ charttype_rows[r].WorksheetName = Unquote(Replace(corpus[i].fname, <<"+">>, <<SP>>))
    /\ \A r \in 1..Len(filter_rows) :
         \E i \in 1..Len(corpus) :
           /\ registers_report(corpus[i]) \/ registers_prompt(corpus[i])
           /\ filter_rows[r].ReportPath = report_path_of(corpus[i])
    /\ (charttype_rows # << >>) <=>
         \E i \in ReportFiles : NonCompound(corpus[i].doc.views) # << >>
    /\ (filter_rows # << >>) <=>
         \/ \E i \in ReportFiles :
              \/ corpus[i].doc.columnOrders # << >>
              \/ /\ corpus[i].doc.filter # << >>
                 /\ parse_filter_expression(corpus[i].doc.filter, 1, "") # << >>
         \/ \E i \in 1..Len(corpus) : registers_prompt(corpus[i])

\* a corpus without layout document whose report fills all three tables
C8_Witness ==
  /\ mpc = "done"
  /\ FallbackCase
  /\ worksheet_rows # << >> /\ charttype_rows # << >> /\ filter_rows # << >>
  /\ \A r \in 1..Len(worksheet_rows) : worksheet_rows[r].ReportNameTag = EmptyStr

\* the tables the run has written
Outputs ==
  [worksheet_rows |-> worksheet_rows, charttype_rows |-> charttype_rows,
   filter_rows |-> filter_rows]

\* C9: when the pipeline has run twice over the same unchanged corpus, the
\* tables of the second run are those of the first, row for row and field
\* for field.
C9_Deterministic ==
  (mpc = "done" /\ previous # << >>) => Outputs = previous[1]

WellFormed(files) == SelectSeq(files, LAMBDA f : f.ok)

IsLayout(file) == file.fname \in {LayoutName, LayoutNameBare}

PromptRaises(file) ==
  /\ file.ok /\ file.doc.prompts # << >>
  /\ file.doc.prompts[1].formula.present /\ file.doc.prompts[1].formula.kids = << >>

ReportEntryOf(file) ==
  SelectSeq(reports_map, LAMBDA it : it.val.file_path = file_path_of(file))

PromptEntryOf(file) ==
  SelectSeq(prompts_map, LAMBDA it : it.val.file_path = file_path_of(file))

\* the elements of one kind under the sections of a page document, in
\* document order
ElementsOf(doc, kind) ==
  LET sections == Flatten([c \in 1..Len(doc.dashboardColumns) |->
                             doc.dashboardColumns[c].sections])
  IN  IF kind = "sections" THEN sections
      ELSE Flatten([k \in 1..Len(sections) |-> sections[k][kind]])

FromPage(records, file) == SelectSeq(records, LAMBDA r : r.page_file = file_path_of(file))

ProcessOrders ==
  {q \in SeqsUpTo(DOMAIN SawKey, Cardinality(DOMAIN SawKey)) :
     Len(q) = Cardinality(DOMAIN SawKey) /\ \A x \in DOMAIN SawKey : InSeq(x, q)}

\* the denormalized rows the joins produce when no column is skipped
Ungated(hash_order) ==
  Flatten([r \in 1..Len(use_rvs) |->
    LET found(report_info) ==
          IF report_info # << >>
          THEN Flatten([c \in 1..Len(report_info[1].report_data.column_rows) |->
                 worksheet_rows_emitted(use_rvs[r], report_info[1].report_data,
                   report_info[1].report_data.column_rows[c],
                   column_names_of(report_info[1].report_data.column_rows[c]), hash_order)])
          ELSE <<worksheet_placeholder_row(use_rvs[r])>>
    IN  found(lookup_report(reports_map, use_rvs[r].report_path))])

\* the gates, each as a filter of rows by their TableNames
GateErroneous(rows) == _filter_erroneous_tablenames_rows(rows)
GateIfError(rows) ==
  SelectSeq(rows, LAMBDA r : ~(Contains(r.TableNames, <<"IFERROR">>)
                               \/ Contains(r.TableNames, <<"iferror">>)))
GateDenylist(rows) ==
  SelectSeq(rows, LAMBDA r : r.TableNames = EmptyStr
                             \/ ~has_banned_table(SplitOn(r.TableNames, "|")))
GateUnion(rows) == SelectSeq(rows, LAMBDA r : ~is_banned_union(r.TableNames))

\* C12 as stated: when the joins have produced the rows no gate has been
\* applied yet, and the final rows are the denormalized rows after (1) the
\* gate on empty, blank and SUM(...)-SUM(...) table names, (2) the denylist,
\* (3) the banned union and (4) the normalisation of ColumnNames.
C12_GatesInOrderAfterJoins ==
  /\ mpc = "worksheets" => \E h \in ProcessOrders : worksheet_rows = Ungated(h)
  /\ FinalWorksheets =>
       \E h \in ProcessOrders :
         worksheet_rows = _normalize_columnnames_biserver_variables(
                            GateUnion(GateDenylist(GateErroneous(Ungated(h)))))

\* C12: the joins skip a column whose table names hold IFERROR, are on the
\* denylist or are a banned union, before its rows are emitted; the rows they
\* return then pass the gate on empty, blank and SUM(...)-SUM(...) table
\* names, and last the normalisation of ColumnNames.  The final rows are
\* those the four steps of the claim, with the IFERROR gate added, yield in
\* the claimed order on the denormalized rows.
C12_GatesInJoinThenPostProcess ==
  /\ mpc = "worksheets" =>
       \E h \in ProcessOrders :
         worksheet_rows = GateUnion(GateDenylist(GateIfError(Ungated(h))))
  /\ mpc = "filtered" =>
       \E h \in ProcessOrders :
         worksheet_rows = GateErroneous(GateUnion(GateDenylist(GateIfError(Ungated(h)))))
  /\ FinalWorksheets =>
       \E h \in ProcessOrders :
         worksheet_rows = _normalize_columnnames_biserver_variables(
                            GateUnion(GateDenylist(GateIfError(GateErroneous(Ungated(h))))))

\* the joins have returned rows with a blank TableNames, not yet dropped,
\* while a column on the denylist has no row
C12_Witness ==
  /\ mpc = "worksheets"
  /\ \E k \in 1..Len(worksheet_rows) : Strip(worksheet_rows[k].TableNames) = EmptyStr
  /\ \E i \in ReportFiles :
       \E c \in 1..Len(corpus[i].doc.columns) :
         /\ column_is_skipped(column_names_of(column_row(corpus[i].doc.columns[c])))
         /\ \A k \in 1..Len(worksheet_rows) :
              worksheet_rows[k].ColumnId # corpus[i].doc.columns[c].columnID

\* the final rows of one report-view reference for one column id
RowsOfColumn(rv, id) ==
  SelectSeq(worksheet_rows,
            LAMBDA w : /\ w.ReportPath = rv.report_path /\ w.WorksheetName = rv.page_name
                       /\ w.ReportNameTag = rv.report_view_name /\ w.ColumnId = id)

\* a column record passes every gate
PassesGates(col) ==
  /\ ~column_is_skipped(column_names_of(col))
  /\ Strip(StrJoin(<<"|">>, column_names_of(col).table_names)) \notin {EmptyStr, <<SumDiff>>}

\* the ViewIds of the final rows of a resolved reference for a column id
\* are, for each column of that id that passes the gates, in turn, ids(views)
ViewIdsAre(ids(_)) ==
  \A r \in 1..Len(use_rvs) :
    \A info \in {lookup_report(reports_map, use_rvs[r].report_path)} :
      info # << >> =>
        \A c \in 1..Len(info[1].report_data.column_rows) :
          [k \in 1..Len(RowsOfColumn(use_rvs[r], info[1].report_data.column_rows[c].column_id))
             |-> RowsOfColumn(use_rvs[r], info[1].report_data.column_rows[c].column_id)[k].ViewId]
            = Flatten([d \in 1..Len(info[1].report_data.column_rows) |->
                 IF /\ info[1].report_data.column_rows[d].column_id
                         = info[1].report_data.column_rows[c].column_id
                    /\ PassesGates(info[1].report_data.column_rows[d])
                 THEN ids(info[1].xml.views) ELSE << >>])

RawNames(views) == [i \in 1..Len(NonCompound(views)) |-> NonCompound(views)[i].name]

EmittedNames(views) ==
  IF RawNames(views) = << >> THEN <<EmptyStr>> ELSE Dedupe(RawNames(views))

\* C13 as stated: a column that passes the gates has one row per non-compound
\* view of the report, with the view's raw name as ViewId, in document order.
C13_OneRowPerView == mpc = "done" => ViewIdsAre(RawNames)

\* C13: a column that passes the gates has one row per distinct raw name of
\* the non-compound views of the report, in the order of first occurrence,
\* whether or not the view is a child of the compound view, and one row with
\* an empty ViewId when the report has no non-compound view; the name of a
\* compound view is never a ViewId.
C13_OneRowPerRawName ==
  mpc = "done" =>
    /\ ViewIdsAre(EmittedNames)
    /\ \A k \in 1..Len(worksheet_rows) :
         \A info \in {lookup_report(reports_map, worksheet_rows[k].ReportPath)} :
           \A v \in 1..Len(info[1].xml.views) :
             info[1].xml.views[v].xtype = "compoundView" /\ info[1].xml.views[v].name \notin
                 {RawNames(info[1].xml.views)[j] : j \in 1..Len(RawNames(info[1].xml.views))}
               => worksheet_rows[k].ViewId # info[1].xml.views[v].name

\* a report whose compound view has the one child tableView!1 and which has
\* two pivot views differing by suffix: its column has a row for each view
C13_Witness ==
  /\ mpc = "done"
  /\ \E i \in CompoundReports :
       /\ RecordedOrder(i) = <<T1>>
       /\ RawNames(corpus[i].doc.views) = <<P1, P2, T1>>
       /\ [k \in 1..Len(worksheet_rows) |-> worksheet_rows[k].ViewId] = <<P1, P2, T1>>

\* the entry of the report map a reference stands for: the last entry whose
\* path is the percent-decoded reference up to case, else the first entry
\* whose last path segment is that of the reference up to case, else none
Resolve(report_path) ==
  LET full == {k \in 1..Len(reports_map) :
                 Lower(reports_map[k].key) = Lower(Unquote(report_path))}
      base == {k \in 1..Len(reports_map) :
                 /\ basename(StripSlash(Lower(Unquote(report_path)))) # EmptyStr
                 /\ Lower(basename(StripSlash(reports_map[k].key)))
                      = basename(StripSlash(Lower(Unquote(report_path))))}
  IN  IF full # {} THEN <<reports_map[CHOOSE k \in full : \A j \in full : j <= k]>>
      ELSE IF base # {} THEN <<reports_map[CHOOSE k \in base : \A j \in base : k <= j]>>
      ELSE << >>

\* the reference r with the path of the entry it stands for in place of its own
Named(r) ==
  IF Resolve(use_rvs[r].report_path) = << >> THEN use_rvs[r]
  ELSE [use_rvs[r] EXCEPT !.report_path = Resolve(use_rvs[r].report_path)[1].key]

\* rows under the path the reference r has
AsReferenced(rows, r) ==
  [k \in 1..Len(rows) |-> [rows[k] EXCEPT !.ReportPath = use_rvs[r].report_path]]

\* C14: a reference to a report is percent-decoded and matched against the
\* full catalog paths up to case first, then against the last path segments
\* up to case, and is unresolved when neither matches; the rows of the
\* Worksheets, the ChartType and the Filters table for a reference are those
\* that the one report it stands for gives when named by its own path, the
\* same report in all three.
C14_SameReportInEveryJoin ==
  mpc = "done" =>
    /\ \E hash_order \in ProcessOrders :
         worksheet_rows = _normalize_columnnames_biserver_variables(
           _filter_erroneous_tablenames_rows(Flatten([r \in 1..Len(use_rvs) |->
             AsReferenced(create_worksheets_csv_data(<<Named(r)>>,
                            Resolve(use_rvs[r].report_path), hash_order), r)])))
    /\ charttype_rows = Flatten([r \in 1..Len(use_rvs) |->
         AsReferenced(create_charttype_csv_data(<<Named(r)>>,
                        Resolve(use_rvs[r].report_path)), r)])
    /\ filter_rows = Flatten([r \in 1..Len(use_rvs) |->
         AsReferenced(create_filters_csv_data(<<Named(r)>>, << >>,
                        Resolve(use_rvs[r].report_path), << >>), r)])
           \o create_filters_csv_data(<< >>, use_gfs, << >>, prompts_map)

\* a page names the report of its directory with escaped slashes while a
\* report of the same name in another directory was registered before it:
\* the rows of the three tables for the reference are those of the report
\* of the directory, found by its full path
C14_Witness ==
  /\ mpc = "done"
  /\ Len(reports_map) = 2
  /\ \E r \in 1..Len(use_rvs) :
       /\ use_rvs[r].report_path = <<"/", "shared", "%2f", "sales", "%2f", "r1">>
       /\ Resolve(use_rvs[r].report_path) = <<reports_map[2]>>
       /\ \E k \in 1..Len(worksheet_rows) :
            /\ worksheet_rows[k].ReportPath = use_rvs[r].report_path
            /\ worksheet_rows[k].ViewId = T1
       /\ \E k \in 1..Len(charttype_rows) :
            /\ charttype_rows[k].ReportPath = use_rvs[r].report_path
            /\ charttype_rows[k].ViewId = T1
       /\ \E k \in 1..Len(filter_rows) :
            /\ filter_rows[k].ReportPath = use_rvs[r].report_path
            /\ filter_rows[k].Operator = "equal"

\* the records synthesized for the entries of the report map that no
\* reference of a dashboard stands for
Unreferenced ==
  SelectSeq(_synthesize_dashboard_report_views_from_reports(reports_map),
            LAMBDA rv : \A i \in 1..Len(agg.report_views) :
                          Resolve(agg.report_views[i].report_path) # Resolve(rv.report_path))

\* C15: when the dashboards name reports, the report-view records used for
\* the tables are the references of the dashboards and then one synthesized
\* record for each discovered report that no reference resolves to, by
\* percent-decoding, case folding or its last path segment; a report that a
\* reference resolves to is not added again.
C15_ReferencedNeverAddedTwice ==
  (mpc \in {"synthesized", "dashboard", "worksheets", "filtered", "normalized", "charttype",
            "filters", "done"}
     /\ agg.report_views # << >>)
    => use_rvs = agg.report_views \o Unreferenced

\* the non-empty rules the views of the raw name view_name record for a
\* column in the document of a report
RulesOf(doc, view_name, col_id) ==
  {rule \in {"sum", "count", "max"} :
     \E v \in 1..Len(doc.views) :
       /\ doc.views[v].name = view_name
       /\ \/ \E m \in 1..Len(doc.views[v].measures) :
               doc.views[v].measures[m] = [columnID |-> col_id, aggRule |-> rule]
          \/ \E e \in 1..Len(doc.views[v].edgeLayers) :
               doc.views[v].edgeLayers[e] = [columnID |-> col_id, aggRule |-> rule]}

\* the non-empty rules any view records for a column
RulesOfAnyView(doc, col_id) ==
  UNION {RulesOf(doc, doc.views[v].name, col_id) : v \in 1..Len(doc.views)}

\* C16: the Summerized_by of a Worksheets row is a rule that the view the
\* reference names records for the column of the row when that view records
\* one; when the reference names no view it is a rule some view records for
\* the column, or empty; in every other case it is empty.
C16_RuleOfTheSpecificView ==
  mpc = "done" =>
    \A k \in 1..Len(worksheet_rows) :
      \A info \in {Resolve(worksheet_rows[k].ReportPath)} :
        info # << >> =>
          IF worksheet_rows[k].ReportNameTag = EmptyStr
          THEN worksheet_rows[k].Summerized_by
                 \in RulesOfAnyView(info[1].val.xml, worksheet_rows[k].ColumnId) \cup {""}
          ELSE IF RulesOf(info[1].val.xml, worksheet_rows[k].ReportNameTag,
                          worksheet_rows[k].ColumnId) # {}
          THEN worksheet_rows[k].Summerized_by
                 \in RulesOf(info[1].val.xml, worksheet_rows[k].ReportNameTag,
                             worksheet_rows[k].ColumnId)
          ELSE worksheet_rows[k].Summerized_by = ""

\* the expression holds the letters CASE, in capitals or not
HoldsCASE(str) == \E i \in 1..Len(str) : str[i] \in {"CASE", "case", "Showcase"}

\* the CASE constructs of the documents
HoldsCaseConstruct(str) == \E i \in 1..Len(str) : str[i] \in {"CASE", "case"}

\* C17: IsDerived of a row of the final Worksheets table is Yes when the expression type of
\* its column is neither the plain SQL expression type nor empty, when the
\* expression holds the letters CASE, in capitals or not and also inside a
\* name, or when it holds an opening parenthesis, and No in every other case;
\* a column without expression type is derived by its text only.
C17_IsDerived ==
  mpc = "done" => \A k \in 1..Len(worksheet_rows) :
    worksheet_rows[k].IsDerived
      = IF \/ worksheet_rows[k].ExpressionType \notin {"sqlExpression", ""}
           \/ HoldsCASE(worksheet_rows[k].Formula)
           \/ InSeq("(", worksheet_rows[k].Formula)
        THEN "Yes" ELSE "No"

\* C17 as stated: every expression type but the plain SQL expression type,
\* the empty one too, makes the row derived, and so do a CASE construct and a
\* parenthesis, and nothing else.
C17_IsDerivedAlsoWhenUntyped ==
  mpc = "done" => \A k \in 1..Len(worksheet_rows) :
    worksheet_rows[k].IsDerived
      = IF \/ worksheet_rows[k].ExpressionType # "sqlExpression"
           \/ HoldsCaseConstruct(worksheet_rows[k].Formula)
           \/ InSeq("(", worksheet_rows[k].Formula)
        THEN "Yes" ELSE "No"

\* the final row of a column without expression type and without CASE or
\* parenthesis in its text is not derived
C17_Witness ==
  /\ mpc = "done"
  /\ \E k \in 1..Len(worksheet_rows) :
       /\ worksheet_rows[k].ExpressionType = ""
       /\ worksheet_rows[k].Formula = Pair(<<"T">>, <<"C">>)
       /\ worksheet_rows[k].IsDerived = "No"

-----------------------------------------------------------------------------
(* Claims on the leaves of the flattener *)

\* the leaves whose operator the flattener has no rendering for
UnrecognizedLeaves(doc) ==
  {i \in 1..Len(doc) : ~IsLogical(doc[i]) /\ doc[i].op = "like"}

\* the texts of the literal children of a leaf that are not empty
LiteralsOf(node) ==
  NonEmpty([k \in 1..Len(SelectSeq(node.kids, LAMBDA kid : kid.xtype = "xsd:string")) |->
              text(SelectSeq(node.kids, LAMBDA kid : kid.xtype = "xsd:string")[k])])

\* C18: a leaf of an unrecognized operator yields a row that carries its
\* first literal child as filter value when it has a literal child, and no
\* row when it has none.
C18_LiteralOrNoRow ==
  fpc = "parsed" =>
    \A i \in UnrecognizedLeaves(filter_doc) :
      IF LiteralsOf(filter_doc[i]) # << >>
      THEN /\ RowsOf(filter_doc, parsed_filters, i) # {}
           /\ \A r \in RowsOf(filter_doc, parsed_filters, i) :
                r.filter_value = LiteralsOf(filter_doc[i])[1]
      ELSE RowsOf(filter_doc, parsed_filters, i) = {}

PromptedLeaves(doc) ==
  {i \in 1..Len(doc) : ~IsLogical(doc[i]) /\ doc[i].op = "prompted"}

\* "T"."C" of the table and column the flattener found for a leaf
QuotedName(node) ==
  LET quoted(names) ==
        IF names.table_name # EmptyStr /\ names.column_name # EmptyStr
        THEN {<<DQ>> \o names.table_name \o <<DQ, ".", DQ>> \o names.column_name \o <<DQ>>}
        ELSE {}
  IN  quoted(quoted_names(findall_descendants(node.kids, "sqlExpression"), EmptyStr, EmptyStr))

\* where the column of a prompted leaf comes from: the text of an operand
\* that is an SQL expression, the formula of one that is a column expression
\* with a formula, else the operand's direct text or, when it has none, its
\* first nested SQL expression
ColumnOf(kid) ==
  IF kid.xtype = "sqlExpression" THEN text(kid)
  ELSE IF kid.xtype = "columnExpression" /\ kid.formula # << >> THEN text(kid.formula[1])
  ELSE IF kid.own # EmptyStr THEN kid.own
  ELSE IF \E f \in 1..Len(kid.formula) : kid.formula[f].xtype = "sqlExpression"
  THEN text(kid.formula[CHOOSE f \in 1..Len(kid.formula) :
                          /\ kid.formula[f].xtype = "sqlExpression"
                          /\ \A g \in 1..(f-1) : kid.formula[g].xtype # "sqlExpression"])
  ELSE EmptyStr

\* C19 as stated: the row of a prompted leaf reads COLUMN IS PROMPTED with
\* an empty filter value, COLUMN being the nested SQL expression (its text or
\* the quoted table and column found in it) or the formula of the nested
\* column expression.
C19_ColumnFromSqlOrFormula ==
  fpc = "parsed" =>
    \A i \in PromptedLeaves(filter_doc) :
      \A r \in RowsOf(filter_doc, parsed_filters, i) :
        /\ r.filter_value = EmptyStr
        /\ \E column \in QuotedName(filter_doc[i])
                           \cup {text(filter_doc[i].kids[1]) : x \in {1} \cap
                                   {IF filter_doc[i].kids[1].xtype = "sqlExpression" THEN 1 ELSE 0}}
                           \cup {ColumnOf(filter_doc[i].kids[1]) : x \in {1} \cap
                                   {IF filter_doc[i].kids[1].xtype = "columnExpression" THEN 1 ELSE 0}} :
             r.column_expression = column \o <<SP, "IS", SP, "PROMPTED">>

\* C19: a prompted leaf yields a row exactly when it has an operand whose
\* column is not empty; the row reads COLUMN IS PROMPTED with an empty filter
\* value, COLUMN being the text of an operand that is an SQL expression, the
\* formula of one that is a column expression, else the operand's direct
\* text or its first nested SQL expression, never all the text under the
\* operand; when that text does not begin with a quote and a quoted table
\* and column are found under the leaf, COLUMN is that "table"."column".
C19_PromptedColumn ==
  fpc = "parsed" =>
    \A i \in PromptedLeaves(filter_doc) :
      IF filter_doc[i].kids = << >> \/ ColumnOf(filter_doc[i].kids[1]) = EmptyStr
      THEN RowsOf(filter_doc, parsed_filters, i) = {}
      ELSE /\ RowsOf(filter_doc, parsed_filters, i) # {}
           /\ \A r \in RowsOf(filter_doc, parsed_filters, i) :
                /\ r.filter_value = EmptyStr
                /\ r.column_expression
                     = (IF QuotedName(filter_doc[i]) # {}
                           /\ ~StartsWith(ColumnOf(filter_doc[i].kids[1]), DQ)
                        THEN CHOOSE name \in QuotedName(filter_doc[i]) : TRUE
                        ELSE ColumnOf(filter_doc[i].kids[1])) \o <<SP, "IS", SP, "PROMPTED">>

\* a prompted leaf on a column expression that holds text next to its
\* formula has been flattened: the row names the formula only
C19_Witness ==
  /\ fpc = "parsed"
  /\ Len(filter_doc) = 1
  /\ filter_doc[1].op = "prompted"
  /\ Len(filter_doc[1].kids) = 1
  /\ filter_doc[1].kids[1].own = <<"meta">>
  /\ parsed_filters = <<[operator |-> "prompted", parent_operator |-> "",
                         column_expression |-> <<"x", SP, "IS", SP, "PROMPTED">>,
                         column_name |-> EmptyStr, table_name |-> EmptyStr,
                         filter_value |-> EmptyStr]>>

\* the references of the run that stand for no discovered report
UnresolvedReferences ==
  {r \in 1..Len(use_rvs) : Resolve(use_rvs[r].report_path) = << >>}

\* the final Worksheets table has a row for every unresolved reference, with
\* blank report fields
UnresolvedInWorksheets ==
  \A r \in UnresolvedReferences :
    \E k \in 1..Len(worksheet_rows) :
      /\ worksheet_rows[k].ReportPath = use_rvs[r].report_path
      /\ worksheet_rows[k].WorksheetName = use_rvs[r].page_name
      /\ worksheet_rows[k].TableNames = EmptyStr
      /\ worksheet_rows[k].ColumnId = ""

\* the ChartType table has a row for every unresolved reference, without
\* view id and view type
UnresolvedInChartType ==
  \A r \in UnresolvedReferences :
    \E k \in 1..Len(charttype_rows) :
      /\ charttype_rows[k].ReportPath = use_rvs[r].report_path
      /\ charttype_rows[k].WorksheetName = use_rvs[r].page_name
      /\ charttype_rows[k].ViewId = EmptyStr
      /\ charttype_rows[k].ViewType = ""

\* a sort order on a column id that no column of the report has is a Sort
\* row with a blank expression
UnmatchedSortColumns ==
  \A r \in 1..Len(use_rvs) :
    \A info \in {Resolve(use_rvs[r].report_path)} :
      info # << >> =>
        \A o \in 1..Len(info[1].val.xml.columnOrders) :
          (\A c \in 1..Len(info[1].val.xml.columns) :
             info[1].val.xml.columns[c].columnID # info[1].val.xml.columnOrders[o].columnID)
            => \E k \in 1..Len(filter_rows) :
                 /\ filter_rows[k].ReportPath = use_rvs[r].report_path
                 /\ filter_rows[k].WorksheetName = use_rvs[r].page_name
                 /\ filter_rows[k].FilterType = "Sort"
                 /\ filter_rows[k].ColumnId = info[1].val.xml.columnOrders[o].columnID
                 /\ filter_rows[k].Expression = EmptyStr

\* C20: after the run every reference of a dashboard to a report that
\* matches no discovered report has a row with blank report fields in the
\* final Worksheets table and in the ChartType table, and a column id that
\* matches no column of its report has a row with a blank expression.
C20_UnresolvedKeptBlank ==
  mpc = "done" => UnresolvedInWorksheets /\ UnresolvedInChartType /\ UnmatchedSortColumns

-----------------------------------------------------------------------------
(* Claims on the phases of the batch *)

\* the steps of main after which an output table has been built
TableSteps == {"dashboard", "worksheets", "filtered", "normalized", "charttype", "filters", "done"}

\* C21: the joins start only after every document has been parsed and work
\* on the collected record sets alone: no step that builds an output table
\* parses a source document.
C21_NoParseWhileBuilding ==
  mpc \in TableSteps => opened = {}

\* nothing of the corpus has been parsed and no table has been written
NothingDone ==
  /\ opened = {} /\ reports_map = << >> /\ prompts_map = << >> /\ agg = << >>
  /\ dashboard_rows = << >> /\ worksheet_rows = << >> /\ charttype_rows = << >>
  /\ filter_rows = << >> /\ window_rows = << >>
  /\ mpc # "done"

-----------------------------------------------------------------------------
(* Claims on the dashboard pages *)

\* the page records of the aggregated set and the document each was parsed from
PagesParsed ==
  {<<p, f>> \in (1..Len(agg.pages)) \X (1..Len(corpus)) :
     agg.pages[p].page_file = file_path_of(corpus[f])}

\* the records of one page, in the order of the aggregated set
OfPage(records, page) ==
  SelectSeq(records, LAMBDA r : r.dashboard_name = page.dashboard_name
                                  /\ r.page_name = page.page_name)

\* the records whose parent is the element with the given duid
ChildrenOf(records, duid) == SelectSeq(records, LAMBDA r : r.parent_duid = duid)

\* records carry the positions 0..n-1 and the names of the elements, in
\* document order
InDocumentOrder(records, elems, index_field, name_field) ==
  /\ Len(records) = Len(elems)
  /\ \A i \in 1..Len(elems) :
       /\ records[i][index_field] = i - 1
       /\ records[i][name_field] = elems[i].name

\* the records of the action links: one for each view with a link, each at
\* the position of its view among the action-link views of the section
LinksAtPositions(records, views) ==
  /\ Len(records) = Cardinality({i \in 1..Len(views) : views[i].link # << >>})
  /\ \A i \in 1..Len(records) :
       /\ records[i].action_link_index + 1 \in 1..Len(views)
       /\ views[records[i].action_link_index + 1].link # << >>
       /\ views[records[i].action_link_index + 1].name = records[i].action_link_name
       /\ i > 1 => records[i-1].action_link_index < records[i].action_link_index

\* every record has one of the given duids as its parent
HasParentAmong(records, duids) ==
  \A i \in 1..Len(records) : records[i].parent_duid \in duids

\* C23: the column records of a parsed page carry the positions 0..n-1 in
\* document order and the page's duid as parent; the section records of each
\* column carry the positions 0..m-1 and the column's duid as parent; the
\* records of the report views, the global filters and the action links of
\* each section carry the position among the siblings of their kind and the
\* section's duid as parent.
C23_OrdinalsAndContainment ==
  Aggregated =>
    \A pf \in PagesParsed :
      LET page == agg.pages[pf[1]]
          doc == corpus[pf[2]].doc
          single == Len(OfPage(agg.pages, page)) = 1
      IN  single =>
            /\ InDocumentOrder(OfPage(agg.columns, page), doc.dashboardColumns,
                               "column_index", "column_name")
            /\ \A c \in 1..Len(doc.dashboardColumns) :
                 LET column == doc.dashboardColumns[c]
                 IN  /\ OfPage(agg.columns, page)[c].parent_duid = page.duid
                     /\ OfPage(agg.columns, page)[c].duid = column.duid
                     /\ InDocumentOrder(ChildrenOf(OfPage(agg.sections, page), column.duid),
                                        column.sections, "section_index", "section_name")
                     /\ \A k \in 1..Len(column.sections) :
                          LET section == column.sections[k]
                          IN  /\ InDocumentOrder(
                                   ChildrenOf(OfPage(agg.report_views, page), section.duid),
                                   section.reportViews, "report_view_index", "report_view_name")
                              /\ InDocumentOrder(
                                   ChildrenOf(OfPage(agg.global_filters, page), section.duid),
                                   section.globalFilterViews, "filter_index", "filter_name")
                              /\ LinksAtPositions(
                                   ChildrenOf(OfPage(agg.action_links, page), section.duid),
                                   section.actionLinkViews)
            /\ HasParentAmong(OfPage(agg.sections, page),
                              {doc.dashboardColumns[c].duid : c \in 1..Len(doc.dashboardColumns)})
            /\ \A kind \in {"report_views", "global_filters", "action_links"} :
                 HasParentAmong(OfPage(agg[kind], page),
                                {ElementsOf(doc, "sections")[k].duid :
                                   k \in 1..Len(ElementsOf(doc, "sections"))})

\* a page of two columns has been parsed, with a section that holds an
\* action-link view without link before one with a link
C23_Witness ==
  /\ Aggregated
  /\ \E pf \in PagesParsed :
       /\ Len(corpus[pf[2]].doc.dashboardColumns) = 2
       /\ Len(corpus[pf[2]].doc.dashboardColumns[2].sections) = 2
       /\ \E i \in 1..Len(agg.action_links) : agg.action_links[i].action_link_index = 1
       /\ \E i \in 1..Len(agg.report_views) : agg.report_views[i].report_view_index = 1

\* C24: every page document of a dashboard directory is parsed at most once:
\* the aggregated sets hold one page record for it, and each of its report
\* views, global filter views and action links once.
C24_PageParsedOnce ==
  Aggregated =>
    \A i \in 1..Len(corpus) :
      LET file == corpus[i]
      IN  FromPage(agg.pages, file) # << >> =>
            /\ Len(FromPage(agg.pages, file)) = 1
            /\ Len(FromPage(agg.report_views, file)) = Len(ElementsOf(file.doc, "reportViews"))
            /\ Len(FromPage(agg.global_filters, file))
                 = Len(ElementsOf(file.doc, "globalFilterViews"))
            /\ Len(FromPage(agg.action_links, file))
                 <= Len(ElementsOf(file.doc, "actionLinkViews"))

\* the table has a row of the given type for the reference
HasRowFor(rows, type_field, name_field, object_type, ref) ==
  \E k \in 1..Len(rows) :
    /\ rows[k][type_field] = object_type
    /\ rows[k][name_field] = ref.caption
    /\ rows[k].WorksheetName = ref.page_name
    /\ rows[k].WorksheetPath = file_path_to_catalog_path(ref.page_file)

\* C25: every global-filter reference and every action link extracted from
\* a dashboard page has its Prompts row or Links row in the Dashboards table
\* and in the Windows table, also when the pages hold no report view.
C25_PageReferencesKept ==
  mpc = "done" =>
    /\ \A i \in 1..Len(agg.global_filters) :
         /\ HasRowFor(dashboard_rows, "ObjectType", "ObjectName", "Prompts", agg.global_filters[i])
         /\ HasRowFor(window_rows, "WindowClass", "WindowName", "Prompts", agg.global_filters[i])
    /\ \A i \in 1..Len(agg.action_links) :
         /\ HasRowFor(dashboard_rows, "ObjectType", "ObjectName", "Links", agg.action_links[i])
         /\ HasRowFor(window_rows, "WindowClass", "WindowName", "Links", agg.action_links[i])

-----------------------------------------------------------------------------
(* Claims on the prompt documents *)

\* the formula a prompt element holds by itself: the text of the first child
\* of its formula element, empty without one
OwnFormula(prompt) ==
  IF prompt.formula.kids # << >> THEN NormWs(prompt.formula.kids[1]) ELSE EmptyStr

\* C26: every prompt of a prompt document is registered with the formula of
\* its own formula element, empty when that element is absent or has no
\* child: never with the formula of an earlier prompt, and no prompt is lost.
C26_OwnFormulaOnly ==
  Parsed =>
    \A i \in 1..Len(corpus) :
      LET file == corpus[i]
      IN  (file.ok /\ is_scanned(file) /\ Contains(Lower(file.fname), <<"prompt">>)
             /\ file.doc.prompts # << >>)
            => /\ Len(PromptEntryOf(file)) = 1
               /\ \A e \in 1..Len(PromptEntryOf(file)) :
                    /\ Len(PromptEntryOf(file)[e].val.prompt_data) = Len(file.doc.prompts)
                    /\ \A k \in 1..Len(file.doc.prompts) :
                         PromptEntryOf(file)[e].val.prompt_data[k].expression
                           = OwnFormula(file.doc.prompts[k])

-----------------------------------------------------------------------------
(* Claims on the chart types *)

\* the chart type the display element of a chart view gives
OwnChartType(view) ==
  IF view.display_subtype # EmptyStr
  THEN view.display_type \o <<"_">> \o view.display_subtype
  ELSE view.display_type

\* C27: every ChartType row of a chart view carries the display type and
\* subtype of a chart view of that raw name in the report it resolves to.
C27_ChartTypeOfOwnView ==
  mpc = "done" =>
    \A k \in 1..Len(charttype_rows) :
      charttype_rows[k].ViewType = "dvtchart" =>
        \A info \in {Resolve(charttype_rows[k].ReportPath)} :
          info # << >> =>
            \E v \in 1..Len(info[1].val.xml.views) :
              /\ info[1].val.xml.views[v].xtype = "dvtchart"
              /\ info[1].val.xml.views[v].name = charttype_rows[k].ViewId
              /\ charttype_rows[k].ChartType = OwnChartType(info[1].val.xml.views[v])

-----------------------------------------------------------------------------
(* Claims on the classification of the documents *)

\* the dashboard extractor has parsed the file as a layout or as a page
ParsedAsDashboard(file) ==
  \/ FromPage(agg.pages, file) # << >>
  \/ \E d \in 1..Len(agg.dashboards) : agg.dashboards[d].dashboard_file = file_path_of(file)

\* no file is registered both as a report and as a prompt
AtMostOneOfReportOrPrompt ==
  \A i \in 1..Len(corpus) :
    ReportEntryOf(corpus[i]) = << >> \/ PromptEntryOf(corpus[i]) = << >>

\* C28: a file is registered as at most one of report or prompt, and a file
\* the dashboard extractor parses as a layout or a page is not registered as
\* a report, so that no reference is synthesized for it.
C28_PagesAreNoReports ==
  Aggregated =>
    /\ AtMostOneOfReportOrPrompt
    /\ \A i \in 1..Len(corpus) :
         ParsedAsDashboard(corpus[i]) =>
           /\ ReportEntryOf(corpus[i]) = << >>
           /\ mpc = "done" =>
                \A r \in 1..Len(use_rvs) :
                  use_rvs[r].report_path # report_path_of(corpus[i])
                    \/ use_rvs[r].page_file # file_path_of(corpus[i])

-----------------------------------------------------------------------------
(* Claims on the prompt references *)

\* the reference names the catalog path, up to percent-encoding, '+' for
\* blanks and letter case
Reconciles(filter_path, prompt_path) ==
  Lower(Unquote(Replace(filter_path, <<"+">>, <<SP>>))) = Lower(prompt_path)

\* the Filters rows of one global-filter reference
FilterRowsOf(gf) ==
  SelectSeq(filter_rows, LAMBDA row : /\ row.ReportPath = gf.filter_path
                                      /\ row.WorksheetName = gf.page_name
                                      /\ row.ReportName = EmptyStr)

\* the rows of the reference are the definitions of the prompt document
CarriesDefinitions(gf, prompt_info) ==
  /\ Len(FilterRowsOf(gf)) = Len(prompt_info.prompt_data)
  /\ \A k \in 1..Len(prompt_info.prompt_data) :
       /\ FilterRowsOf(gf)[k].FilterType = prompt_info.view_type
       /\ FilterRowsOf(gf)[k].ColumnId = prompt_info.prompt_data[k].column_id
       /\ FilterRowsOf(gf)[k].Operator = prompt_info.prompt_data[k].operator

\* C29: a global-filter reference of a dashboard whose path is the catalog
\* path of a discovered prompt up to percent-encoding, '+' for blanks and
\* letter case has the definitions of that prompt as its Filters rows, not
\* the fallback row.
C29_PromptPathReconciled ==
  (mpc = "done" /\ agg.report_views # << >>) =>
    \A g \in 1..Len(agg.global_filters) :
      \A p \in 1..Len(prompts_map) :
        Reconciles(agg.global_filters[g].filter_path, prompts_map[p].key)
          => CarriesDefinitions(agg.global_filters[g], prompts_map[p].val)

\* the same for the references that differ from the catalog path in letter
\* case only
CaseOnlyReconciled ==
  (mpc = "done" /\ agg.report_views # << >>) =>
    \A g \in 1..Len(agg.global_filters) :
      \A p \in 1..Len(prompts_map) :
        Lower(agg.global_filters[g].filter_path) = Lower(prompts_map[p].key)
          => CarriesDefinitions(agg.global_filters[g], prompts_map[p].val)

-----------------------------------------------------------------------------
(* The placement tool, extract_global_filters.py, run on a Filters table *)

MaxFilterRows == 3   \* rows of the Filters table the placement tool is given

DColon == "::"

\* DashboardName comes from a catalog folder name (a%3a%3ab decodes to a::b),
\* WorksheetName from the page name
DashboardNames == {<<"a">>, <<"a", DColon, "b">>}

TabNames == {<<"c">>, <<"b", DColon, "c">>}

FilterTypes == {"globalFilterPrompt", "Prompt"}

PromptColumnNames == {<<"Col">>, <<"My", SP, "Col">>}

\* the rows csv.DictReader yields for a Filters.csv the pipeline wrote: every
\* column of the header is present in every row
FilterCsvRows ==
  [DashboardName : DashboardNames, WorksheetName : TabNames, FilterType : FilterTypes,
   ColumnName : PromptColumnNames, TableName : {<<"T">>}]

FiltersTables == SeqsUpTo(FilterCsvRows, MaxFilterRows)

\* create_filter_config(row, index, tab_index); the random "name" of the
\* visual takes no part in the placement and is left out
create_filter_config(row, index, tab_index) ==
  [dashboard |-> row.DashboardName,
   tab |-> row.WorksheetName,
   config |-> [x |-> 1200 + (tab_index % 2) * 350,
               y |-> 200 + (tab_index \div 2) * 200,
               tabOrder |-> 4001 + index,
               queryRef |-> row.TableName \o <<".">> \o Replace(row.ColumnName, <<SP>>, EmptyStr),
               Property |-> row.ColumnName]]

\* key = f"{dashboard_name}::{tab_name}"
group_key(row) == row.DashboardName \o <<DColon>> \o row.WorksheetName

\* if key not in dashboard_groups: dashboard_groups[key] = [];
\* dashboard_groups[key].append(filter_row)
append_to_group(groups, key, row) ==
  IF \E i \in 1..Len(groups) : groups[i].key = key
  THEN [i \in 1..Len(groups) |->
          IF groups[i].key = key
          THEN [key |-> key, val |-> Append(groups[i].val, row)]
          ELSE groups[i]]
  ELSE Append(groups, [key |-> key, val |-> <<row>>])

RECURSIVE group_global_filters(_, _)
group_global_filters(groups, rows) ==
  IF rows = << >> THEN groups
  ELSE group_global_filters(append_to_group(groups, group_key(Head(rows)), Head(rows)),
                            Tail(rows))

\* the conversion loop: tab_idx restarts with every key, global_idx never
RECURSIVE convert_groups(_, _)
convert_groups(groups, global_idx) ==
  IF groups = << >> THEN << >>
  ELSE <<[key |-> Head(groups).key,
          val |-> [t \in 1..Len(Head(groups).val) |->
                     create_filter_config(Head(groups).val[t], global_idx + t - 1, t - 1).config]]>>
       \o convert_groups(Tail(groups), global_idx + Len(Head(groups).val))

\* key.split('::', 1)
split_key(key) ==
  LET k == CHOOSE i \in 1..Len(key) : key[i] = DColon /\ \A j \in 1..(i-1) : key[j] # DColon
  IN  <<SubSeq(key, 1, k-1), SubSeq(key, k+1, Len(key))>>

\* the entries written to globalFilter.json, in the order of the keys
output_entries(filters) ==
  Flatten([g \in 1..Len(filters) |->
             [c \in 1..Len(filters[g].val) |->
                [dashboard |-> split_key(filters[g].key)[1],
                 tab |-> split_key(filters[g].key)[2],
                 config |-> filters[g].val[c]]]])

InitPlacement ==
  /\ FilterIdle
  /\ MainIdle
  /\ \/ filters_csv \in [exists : {TRUE}, rows : FiltersTables]
     \/ filters_csv = [exists |-> FALSE, rows |-> << >>]
  /\ dashboard_groups = << >>
  /\ dashboard_filters = << >>
  /\ globalFilter_json = << >>
  /\ gpc = "start"

\* open(input_file) raises FileNotFoundError: the message is printed and
\* nothing is written
InputFileNotFound ==
  /\ gpc = "start"
  /\ ~filters_csv.exists
  /\ gpc' = "failed"
  /\ UNCHANGED <<filters_csv, dashboard_groups, dashboard_filters, globalFilter_json>>
  /\ UNCHANGED filterVars
  /\ UNCHANGED mainVars

\* the rows are read, the global filters selected and grouped by key
GroupGlobalFilters ==
  /\ gpc = "start"
  /\ filters_csv.exists
  /\ LET IsGlobal(row) == row.FilterType = "globalFilterPrompt"
     IN  dashboard_groups' = group_global_filters(<< >>, SelectSeq(filters_csv.rows, IsGlobal))
  /\ gpc' = "grouped"
  /\ UNCHANGED <<filters_csv, dashboard_filters, globalFilter_json>>
  /\ UNCHANGED filterVars
  /\ UNCHANGED mainVars

\* every grouped row is converted to its configuration
ConvertFilters ==
  /\ gpc = "grouped"
  /\ dashboard_filters' = convert_groups(dashboard_groups, 0)
  /\ gpc' = "converted"
  /\ UNCHANGED <<filters_csv, dashboard_groups, globalFilter_json>>
  /\ UNCHANGED filterVars
  /\ UNCHANGED mainVars

\* globalFilter.json is written
WriteGlobalFilterJson ==
  /\ gpc = "converted"
  /\ globalFilter_json' = output_entries(dashboard_filters)
  /\ gpc' = "written"
  /\ UNCHANGED <<filters_csv, dashboard_groups, dashboard_filters>>
  /\ UNCHANGED filterVars
  /\ UNCHANGED mainVars

NextPlacement ==
  \/ InputFileNotFound
  \/ GroupGlobalFilters
  \/ ConvertFilters
  \/ WriteGlobalFilterJson

SpecPlacement == InitPlacement /\ [][NextPlacement]_vars

-----------------------------------------------------------------------------
(* Claims on the placement tool *)

\* the rows of the table flagged as global prompts
GlobalPromptRows ==
  LET IsGlobal(row) == row.FilterType = "globalFilterPrompt"
  IN  SelectSeq(filters_csv.rows, IsGlobal)

PairOf(row) == <<row.DashboardName, row.WorksheetName>>

\* the rows grouped by (dashboard, tab), the groups in order of first appearance
RECURSIVE GroupedByFirstAppearance(_)
GroupedByFirstAppearance(rows) ==
  IF rows = << >> THEN << >>
  ELSE LET Same(row) == PairOf(row) = PairOf(Head(rows))
           Other(row) == PairOf(row) # PairOf(Head(rows))
       IN  SelectSeq(rows, Same) \o GroupedByFirstAppearance(SelectSeq(rows, Other))

\* the index of the k-th row among the rows of its own (dashboard, tab)
PerTabIndex(rows, k) == Cardinality({j \in 1..(k-1) : PairOf(rows[j]) = PairOf(rows[k])})

\* the entry placed for a row with per-tab index i and global index n
PlacedAs(entry, row, i, n) ==
  /\ entry.dashboard = row.DashboardName
  /\ entry.tab = row.WorksheetName
  /\ entry.config.Property = row.ColumnName
  /\ entry.config.x = 1200 + (i % 2) * 350
  /\ entry.config.y = 200 + (i \div 2) * 200
  /\ entry.config.tabOrder = 4001 + n

\* no two entries of one (dashboard, tab) at one position, no two entries of
\* the file with one tabOrder
DistinctPlacement(entries) ==
  \A k1, k2 \in 1..Len(entries) :
    k1 # k2 =>
      /\ entries[k1].config.tabOrder # entries[k2].config.tabOrder
      /\ (entries[k1].dashboard = entries[k2].dashboard /\ entries[k1].tab = entries[k2].tab)
           => <<entries[k1].config.x, entries[k1].config.y>>
                # <<entries[k2].config.x, entries[k2].config.y>>

OneEntryEach(entries, rows) ==
  /\ Len(entries) = Len(rows)
  /\ \A k \in 1..Len(rows) : PlacedAs(entries[k], rows[k], PerTabIndex(rows, k), k - 1)

\* C30: once globalFilter.json is written, exactly the rows of type
\* globalFilterPrompt have one entry each, the entries grouped by the row's
\* (dashboard, tab) in order of first appearance, placed at
\* (1200 + (i mod 2)*350, 200 + (i div 2)*200) for the per-tab index i with
\* tabOrder 4001 + global index; no two entries of one (dashboard, tab) share
\* a position and no two entries share a tabOrder
C30_OneEntryPerGlobalPrompt ==
  gpc = "written" =>
    /\ OneEntryEach(globalFilter_json, GroupedByFirstAppearance(GlobalPromptRows))
    /\ DistinctPlacement(globalFilter_json)

\* what does hold on every table: the number of entries, and the distinct
\* positions and tabOrders among the entries as they are labelled in the file
PlacementDistinctAsWritten ==
  gpc = "written" =>
    /\ Len(globalFilter_json) = Len(GlobalPromptRows)
    /\ DistinctPlacement(globalFilter_json)

\* and the whole statement on the tables whose dashboard names hold no "::"
PlacementOfPlainDashboards ==
  (gpc = "written" /\ \A k \in 1..Len(filters_csv.rows) :
                         ~Contains(filters_csv.rows[k].DashboardName, <<DColon>>))
    => OneEntryEach(globalFilter_json, GroupedByFirstAppearance(GlobalPromptRows))

====
